---- MODULE Spec2Model ----
\* Verification model of the skydive ceph topology probe
\* (topology/probes/ceph: analyzer.go, osd.go, mon.go, ceph.go).
\*
\* The analyzer Probe listens to graph events.  On a node added/updated event
\* it decodes the cluster summary of the node, then renders the OSD snapshot
\* of the node into object nodes and edges, and records the blob it rendered
\* in p.clusters (the ledger) under the tracked cluster Fsid.
EXTENDS Integers, Sequences, FiniteSets, Bags, TLC

\* ------------------------------------------------------------------ bounds
\* number of events handled in one behaviour of Spec
MaxEvents == 3
\* number of events handled in one behaviour of SpecPass
PassEvents == 2
\* number of events handled in one behaviour of SpecLinks
LinkEvents == 2
\* number of events handled in one behaviour of SpecRetry
RetryEvents == 4
\* longest monitor snapshot drawn by SpecLinks
MaxMons == 1
\* longest OSD snapshot drawn by SpecPass
MaxRecs == 2

\* ------------------------------------------------------------ value domains
HostNames == {"h1", "h2"}
\* the hosts whose collector attaches OSD snapshots; every host may carry a
\* cluster summary
OSDCarriers == {"h1", "h2"}
\* interface nodes the environment may add: <<host name, interface name>>
IfaceSlots == {<<"h1", "eth0">>, <<"h1", "eth1">>, <<"h2", "eth0">>}
Fsids == {"A", "B"}

\* the IPV4 and EncapType attributes of the interface nodes
IfaceIPV4(h, i) ==
    CASE <<h, i>> = <<"h1", "eth0">> -> "10.0.0.5/24"
      [] <<h, i>> = <<"h1", "eth1">> -> "10.0.1.5/24"
      [] <<h, i>> = <<"h1", "lo">>   -> "127.0.0.1/8"
      [] <<h, i>> = <<"h2", "eth0">> -> "10.0.0.6/24"
      [] OTHER -> ""

IfaceEncap(h, i) == IF i = "lo" THEN "loopback" ELSE "ether"

\* ------------------------------------------------------------------- blobs
\* A Go string held by a snapshot attribute.  enc says what
\* base64.StdEncoding.DecodeString makes of it, gob what the decoded bytes
\* hold, val the encoded value.
EmptyString == [enc |-> "empty", gob |-> "none", val |-> <<>>]
NotBase64  == [enc |-> "garbage", gob |-> "none", val |-> <<>>]
NotGob     == [enc |-> "base64", gob |-> "junk", val |-> <<>>]

\* gob.NewEncoder(&b).Encode(v): the bytes written for value v of a type
GobEncode(type, v) == [gob |-> type, val |-> v]

\* base64.StdEncoding.EncodeToString(bytes)
Base64Encode(bytes) == [enc |-> "base64", gob |-> bytes.gob, val |-> bytes.val]

\* base64.StdEncoding.DecodeString(s): an error for a string outside the
\* alphabet, no bytes for the empty string
Base64Decode(s) ==
    IF s.enc = "garbage" THEN [err |-> TRUE, bytes |-> GobEncode("none", <<>>)]
    ELSE [err |-> FALSE, bytes |-> GobEncode(s.gob, s.val)]

\* gob.NewDecoder(&b).Decode(&v) for v of the given type: an error (EOF, or a
\* type mismatch) unless the bytes encode a value of that type
GobDecode(type, bytes) ==
    IF bytes.gob = type THEN [err |-> FALSE, val |-> bytes.val]
    ELSE [err |-> TRUE, val |-> <<>>]

\* ReadOSD: the blob attached for a decoded `ceph osd metadata` list
EncodeOSDs(osds) == Base64Encode(GobEncode("osds", osds))

\* ReadCluster: the blob attached for a decoded `ceph -s` summary
EncodeCluster(c) == Base64Encode(GobEncode("cluster", <<c>>))

\* the OSD struct, restricted to the fields the probe reads plus one field
\* (Arch) it only stores
OSD(h, id, front, back, arch) ==
    [Hostname |-> h, ID |-> id, FrontIface |-> front, FrontAddr |-> "10.0.0.1:6800",
     BackIface |-> back, BackAddr |-> "10.0.1.1:6801", Arch |-> arch]

\* the CLUSTER struct, restricted to the field the probe reads
CLUSTER(fsid) == [Fsid |-> fsid]

\* the MON struct, restricted to the fields the probe reads
MON(name, addr, hostname) == [Name |-> name, Addr |-> addr, Hostname |-> hostname]

\* ReadMons: the blob attached for a decoded `ceph mon metadata` list
EncodeMons(mons) == Base64Encode(GobEncode("mons", mons))

\* ---------------------------------------------------------------- the graph
\* An absent attribute (GetField returns nil) is <<>>, a present one <<v>>.
Nil == <<>>
Some(v) == <<v>>

NoNode == "nil"

HostID(h) == h
IfaceID(h, i) == h \o "/" \o i

\* metadata of a graph node, restricted to the fields the probe reads or
\* writes; CephCluster / CephOSD / CephMON are the attributes
\* Software.Ceph.{CLUSTER,OSD,MON}.metadata
HostMetadata(h, c, o, m) ==
    [Type |-> "host", Name |-> h, Manager |-> "", IPV4 |-> "", EncapType |-> "",
     CephCluster |-> c, CephOSD |-> o, CephMON |-> m, Ceph |-> Nil]

IfaceMetadata(i, ip, encap) ==
    [Type |-> "device", Name |-> i, Manager |-> "", IPV4 |-> ip, EncapType |-> encap,
     CephCluster |-> Nil, CephOSD |-> Nil, CephMON |-> Nil, Ceph |-> Nil]

ObjectMetadata(type, name, rec) ==
    [Type |-> type, Name |-> name, Manager |-> "ceph", IPV4 |-> "", EncapType |-> "",
     CephCluster |-> Nil, CephOSD |-> Nil, CephMON |-> Nil, Ceph |-> Some(rec)]

\* A probe-and-graph state st is a record
\*   nodes    : node identifier -> metadata, for the nodes of the graph
\*   owner    : ownership edges <<parent, child>>
\*   links    : bag of the other edges [src, dst, meta]
\*   cluster  : p.cluster
\*   clusters : p.clusters, a Go map (an absent key reads as "")
\*   mons     : p.mons, a Go map
\*   pending  : nodes created by the probe whose node-added event is not
\*              delivered yet
\*   run      : what the last handler did (history, not program state)

\* g.LookupFirstNode(graph.Metadata{"Name": name, "Type": type})
LookupFirstNode(st, name, type) ==
    LET m == {n \in DOMAIN st.nodes :
                 st.nodes[n].Name = name /\ st.nodes[n].Type = type}
    IN IF m = {} THEN NoNode ELSE CHOOSE n \in m : TRUE

\* the children of a node: the nodes it owns
Children(st, parent) ==
    {n \in DOMAIN st.nodes : <<parent, n>> \in st.owner}

\* g.LookupFirstChild(parent, graph.Metadata{"Name": name})
LookupFirstChild(st, parent, name) ==
    LET m == {n \in Children(st, parent) : st.nodes[n].Name = name}
    IN IF m = {} THEN NoNode ELSE CHOOSE n \in m : TRUE

\* the graph of a state: its nodes and its edges
GraphOf(st) == <<st.nodes, st.owner, st.links>>

\* g.NewNode(id, metadata): the node at that identifier is created, or
\* replaced when it exists; listeners get a node-added event for it
NewNode(st, id, metadata) ==
    [st EXCEPT !.nodes = (id :> metadata) @@ st.nodes,
               !.pending = @ \cup {id}]

\* topology.AddOwnershipLink(g, parent, child, nil): no second edge when
\* the parent already owns the child
AddOwnershipLink(st, parent, child) ==
    [st EXCEPT !.owner = @ \cup {<<parent, child>>}]

\* g.Link(a, b, metadata): one more edge from a to b
Link(st, a, b, metadata) ==
    [st EXCEPT !.links = @ (+) SetToBag({[src |-> a, dst |-> b, meta |-> metadata]})]

\* reading a Go map: the zero value for an absent key
MapGet(m, k) == IF k \in DOMAIN m THEN m[k] ELSE EmptyString

\* writing a Go map
MapSet(m, k, v) == (k :> v) @@ m

\* fmt.Sprintf("%d", i)
Itoa(i) == ToString(i)

\* ------------------------------------------------------------- osd.go
\* fmt.Sprintf("osd.%d", osd.ID)
OSDName(osd) == "osd." \o Itoa(osd.ID)

\* mutant of OSDNodeName: the identifier also depends on a field that is no
\* part of the key
OSDNodeName_WithArch(osd) == osd.Hostname \o "_" \o Itoa(osd.ID) \o "_" \o osd.Arch

\* fmt.Sprintf("%s_%d", osd.Hostname, osd.ID)
OSDNodeName(osd) == osd.Hostname \o "_" \o Itoa(osd.ID)

FrontIfaceMetadata(osd) ==
    [Type |-> "socket", Address |-> osd.FrontAddr, RelationType |-> "frontIface"]

BackIfaceMetadata(osd) ==
    [Type |-> "socket", Address |-> osd.BackAddr, RelationType |-> "backIface"]

\* mutant of graphOSD: an interface is looked up by name in the whole graph,
\* not among the children of the host of the record
graphOSD_AnyIface(st, osd) ==
    LET lookupNode == LookupFirstNode(st, osd.Hostname, "host")
        frontIface == IF Len(osd.FrontIface) > 0 /\ lookupNode # NoNode
                      THEN LookupFirstNode(st, osd.FrontIface, "device")
                      ELSE NoNode
        backIface  == IF Len(osd.BackIface) > 0 /\ lookupNode # NoNode
                      THEN LookupFirstNode(st, osd.BackIface, "device")
                      ELSE NoNode
        nodeName   == OSDNodeName(osd)
        s1 == NewNode(st, nodeName, ObjectMetadata("OSD", OSDName(osd), osd))
        s2 == AddOwnershipLink(s1, lookupNode, nodeName)
        s3 == IF backIface # NoNode
              THEN Link(s2, nodeName, backIface, BackIfaceMetadata(osd))
              ELSE s2
        s4 == IF frontIface # NoNode
              THEN Link(s3, nodeName, frontIface, FrontIfaceMetadata(osd))
              ELSE s3
    IN  IF lookupNode = NoNode THEN [st |-> st, ok |-> FALSE]
        ELSE IF Len(osd.FrontIface) > 0 /\ frontIface = NoNode
             THEN [st |-> st, ok |-> FALSE]
        ELSE IF Len(osd.BackIface) > 0 /\ backIface = NoNode
             THEN [st |-> st, ok |-> FALSE]
        ELSE [st |-> s4, ok |-> TRUE]

\* mutant of graphOSD: the object node and its ownership edge are created
\* once the host is found, before the interfaces are looked up
graphOSD_CreateFirst(st, osd) ==
    LET lookupNode == LookupFirstNode(st, osd.Hostname, "host")
        frontIface == IF Len(osd.FrontIface) > 0 /\ lookupNode # NoNode
                      THEN LookupFirstChild(st, lookupNode, osd.FrontIface)
                      ELSE NoNode
        backIface  == IF Len(osd.BackIface) > 0 /\ lookupNode # NoNode
                      THEN LookupFirstChild(st, lookupNode, osd.BackIface)
                      ELSE NoNode
        nodeName   == OSDNodeName(osd)
        s1 == NewNode(st, nodeName, ObjectMetadata("OSD", OSDName(osd), osd))
        s2 == AddOwnershipLink(s1, lookupNode, nodeName)
        s3 == IF backIface # NoNode
              THEN Link(s2, nodeName, backIface, BackIfaceMetadata(osd))
              ELSE s2
        s4 == IF frontIface # NoNode
              THEN Link(s3, nodeName, frontIface, FrontIfaceMetadata(osd))
              ELSE s3
    IN  IF lookupNode = NoNode THEN [st |-> st, ok |-> FALSE]
        ELSE IF Len(osd.FrontIface) > 0 /\ frontIface = NoNode
             THEN [st |-> s2, ok |-> FALSE]
        ELSE IF Len(osd.BackIface) > 0 /\ backIface = NoNode
             THEN [st |-> s2, ok |-> FALSE]
        ELSE [st |-> s4, ok |-> TRUE]

\* graphOSD(p, osd): [st |-> the state it leaves, ok |-> its result]
graphOSD(st, osd) ==
    LET lookupNode == LookupFirstNode(st, osd.Hostname, "host")
        frontIface == IF Len(osd.FrontIface) > 0 /\ lookupNode # NoNode
                      THEN LookupFirstChild(st, lookupNode, osd.FrontIface)
                      ELSE NoNode
        backIface  == IF Len(osd.BackIface) > 0 /\ lookupNode # NoNode
                      THEN LookupFirstChild(st, lookupNode, osd.BackIface)
                      ELSE NoNode
        nodeName   == OSDNodeName(osd)
        s1 == NewNode(st, nodeName, ObjectMetadata("OSD", OSDName(osd), osd))
        s2 == AddOwnershipLink(s1, lookupNode, nodeName)
        s3 == IF backIface # NoNode
              THEN Link(s2, nodeName, backIface, BackIfaceMetadata(osd))
              ELSE s2
        s4 == IF frontIface # NoNode
              THEN Link(s3, nodeName, frontIface, FrontIfaceMetadata(osd))
              ELSE s3
    IN  IF lookupNode = NoNode THEN [st |-> st, ok |-> FALSE]
        ELSE IF Len(osd.FrontIface) > 0 /\ frontIface = NoNode
             THEN [st |-> st, ok |-> FALSE]
        ELSE IF Len(osd.BackIface) > 0 /\ backIface = NoNode
             THEN [st |-> st, ok |-> FALSE]
        ELSE [st |-> s4, ok |-> TRUE]

\* mutant of graphOSDsLoop: the loop stops at the first record that fails
RECURSIVE graphOSDsLoop_StopAtFailure(_, _, _, _)
graphOSDsLoop_StopAtFailure(st, osds, i, everythingGraphed) ==
    IF i > Len(osds) \/ ~everythingGraphed
    THEN [st |-> st, everythingGraphed |-> everythingGraphed]
    ELSE IF Len(osds[i].Hostname) = 0
         THEN graphOSDsLoop_StopAtFailure(st, osds, i + 1, everythingGraphed)
    ELSE LET r == graphOSD(st, osds[i])
             s == [r.st EXCEPT !.run.calls = Append(@, [i |-> i, osd |-> osds[i], ok |-> r.ok,
                                                             touched |-> GraphOf(r.st) # GraphOf(st)])]
         IN graphOSDsLoop_StopAtFailure(s, osds, i + 1, everythingGraphed /\ r.ok)

\* mutant of graphOSDsLoop: a record with an empty Hostname is not skipped
RECURSIVE graphOSDsLoop_NoSkip(_, _, _, _)
graphOSDsLoop_NoSkip(st, osds, i, everythingGraphed) ==
    IF i > Len(osds) THEN [st |-> st, everythingGraphed |-> everythingGraphed]
    ELSE LET r == graphOSD(st, osds[i])
             s == [r.st EXCEPT !.run.calls = Append(@, [i |-> i, osd |-> osds[i], ok |-> r.ok,
                                                             touched |-> GraphOf(r.st) # GraphOf(st)])]
         IN graphOSDsLoop_NoSkip(s, osds, i + 1, everythingGraphed /\ r.ok)

\* the loop of graphOSDs over osds[i..]: records with an empty Hostname are
\* skipped, the others go through graphOSD; a failure clears
\* everythingGraphed and the loop goes on.  run.calls records each call of
\* graphOSD and its result.
RECURSIVE graphOSDsLoop(_, _, _, _)
graphOSDsLoop(st, osds, i, everythingGraphed) ==
    IF i > Len(osds) THEN [st |-> st, everythingGraphed |-> everythingGraphed]
    ELSE IF Len(osds[i].Hostname) = 0
         THEN graphOSDsLoop(st, osds, i + 1, everythingGraphed)
    ELSE LET r == graphOSD(st, osds[i])
             s == [r.st EXCEPT !.run.calls = Append(@, [i |-> i, osd |-> osds[i], ok |-> r.ok,
                                                             touched |-> GraphOf(r.st) # GraphOf(st)])]
         IN graphOSDsLoop(s, osds, i + 1, everythingGraphed /\ r.ok)

\* mutant of graphOSDs: no comparison of the blob with the ledger
graphOSDs_NoShortCircuit(st, n) ==
    LET metadata == n.CephOSD
        fsid     == st.cluster.Fsid
        blob     == metadata[1]
        dec64    == Base64Decode(blob)
        dec      == GobDecode("osds", dec64.bytes)
        osds     == dec.val
        s0       == [st EXCEPT !.run.fsid = fsid, !.run.blob = metadata]
        loop     == graphOSDsLoop([s0 EXCEPT !.run.looped = TRUE], osds, 1, TRUE)
    IN  IF metadata = Nil THEN s0
        ELSE IF dec64.err THEN s0
        ELSE IF dec.err THEN s0
        ELSE IF Len(osds) > 0
             THEN IF ~loop.everythingGraphed THEN loop.st
                  ELSE [loop.st EXCEPT !.clusters = MapSet(@, fsid, blob),
                                       !.run.ret = TRUE]
        ELSE s0

\* mutant of graphOSDs: the ledger is written after a failed pass too
graphOSDs_AdvanceOnFailure(st, n) ==
    LET metadata == n.CephOSD
        fsid     == st.cluster.Fsid
        blob     == metadata[1]
        dec64    == Base64Decode(blob)
        dec      == GobDecode("osds", dec64.bytes)
        osds     == dec.val
        s0       == [st EXCEPT !.run.fsid = fsid, !.run.blob = metadata]
        loop     == graphOSDsLoop([s0 EXCEPT !.run.looped = TRUE], osds, 1, TRUE)
    IN  IF metadata = Nil THEN s0
        ELSE IF MapGet(st.clusters, fsid) = blob THEN s0
        ELSE IF dec64.err THEN s0
        ELSE IF dec.err THEN s0
        ELSE IF Len(osds) > 0
             THEN [loop.st EXCEPT !.clusters = MapSet(@, fsid, blob),
                                  !.run.ret = loop.everythingGraphed]
        ELSE s0

\* mutant of graphOSDs: the ledger is written under the empty key, not
\* under the tracked Fsid
graphOSDs_WrongKey(st, n) ==
    LET metadata == n.CephOSD
        fsid     == st.cluster.Fsid
        blob     == metadata[1]
        dec64    == Base64Decode(blob)
        dec      == GobDecode("osds", dec64.bytes)
        osds     == dec.val
        s0       == [st EXCEPT !.run.fsid = fsid, !.run.blob = metadata]
        loop     == graphOSDsLoop([s0 EXCEPT !.run.looped = TRUE], osds, 1, TRUE)
    IN  IF metadata = Nil THEN s0
        ELSE IF MapGet(st.clusters, fsid) = blob THEN s0
        ELSE IF dec64.err THEN s0
        ELSE IF dec.err THEN s0
        ELSE IF Len(osds) > 0
             THEN IF ~loop.everythingGraphed THEN loop.st
                  ELSE [loop.st EXCEPT !.clusters = MapSet(@, "", blob),
                                       !.run.ret = TRUE]
        ELSE s0

\* graphOSDs(p, n): n is the metadata of the event's node.  run records the
\* Fsid and blob it was called with, whether it reached the loop, and
\* whether it returned true.
graphOSDs(st, n) ==
    LET metadata == n.CephOSD
        fsid     == st.cluster.Fsid
        blob     == metadata[1]
        dec64    == Base64Decode(blob)
        dec      == GobDecode("osds", dec64.bytes)
        osds     == dec.val
        s0       == [st EXCEPT !.run.fsid = fsid, !.run.blob = metadata]
        loop     == graphOSDsLoop([s0 EXCEPT !.run.looped = TRUE], osds, 1, TRUE)
    IN  IF metadata = Nil THEN s0
        ELSE IF MapGet(st.clusters, fsid) = blob THEN s0
        ELSE IF dec64.err THEN s0
        ELSE IF dec.err THEN s0
        ELSE IF Len(osds) > 0
             THEN IF ~loop.everythingGraphed THEN loop.st
                  ELSE [loop.st EXCEPT !.clusters = MapSet(@, fsid, blob),
                                       !.run.ret = TRUE]
        ELSE s0

\* ------------------------------------------------------------- mon.go
\* the addresses a monitor record may hold
MonAddrs == {"", "10.0.0.5:6789/0", "10.0.1.5:6789/0", "127.0.0.1:6789/0", "unknown"}

\* regexp "([0-9]*.[0-9]*.[0-9]*.[0-9]*):[0-9]*(/[0-9]*)", FindStringSubmatch:
\* the whole match and its two groups, or nothing when the string holds no
\* match (no ':' followed by digits and '/', after three characters or more)
FindStringSubmatch(addr) ==
    CASE addr = "10.0.0.5:6789/0"  -> <<"10.0.0.5:6789/0", "10.0.0.5", "/0">>
      [] addr = "10.0.1.5:6789/0"  -> <<"10.0.1.5:6789/0", "10.0.1.5", "/0">>
      [] addr = "127.0.0.1:6789/0" -> <<"127.0.0.1:6789/0", "127.0.0.1", "/0">>
      [] OTHER -> <<>>

\* net.ParseCIDR on the strings of the model: the address and the length of
\* the prefix
ParseCIDR(s) ==
    LET known == {<<ip, m>> : ip \in {"10.0.0.5", "10.0.1.5", "10.0.0.6", "127.0.0.1"},
                              m \in {8, 24, 32}}
        hit   == {k \in known : s = k[1] \o "/" \o ToString(k[2])}
    IN IF hit = {} THEN [err |-> TRUE, ip |-> "", bits |-> 0]
       ELSE LET k == CHOOSE k \in hit : TRUE IN [err |-> FALSE, ip |-> k[1], bits |-> k[2]]

\* IPV4RangeFilter{"IPV4", cidr} on a node: the node holds an address inside
\* the range; the probe only builds ranges of one address (/32)
IPV4RangeFilter(n, cidr) ==
    LET range == ParseCIDR(cidr)
        held  == ParseCIDR(n.IPV4)
    IN ~range.err /\ ~held.err /\ range.bits = 32 /\ held.ip = range.ip

\* the filter of graphMon: Type = "device" AND IPV4 in range AND NOT
\* EncapType = "loopback"
MonIfaceFilter(n, monIP) ==
    /\ n.Type = "device"
    /\ IPV4RangeFilter(n, monIP)
    /\ ~(n.EncapType = "loopback")

\* g.LookupFirstChild(parent, m) for the filter of graphMon
LookupFirstChildMon(st, parent, monIP) ==
    LET m == {n \in Children(st, parent) : MonIfaceFilter(st.nodes[n], monIP)}
    IN IF m = {} THEN NoNode ELSE CHOOSE n \in m : TRUE

\* fmt.Sprintf("mon.%s", mon.Name)
MONName(mon) == "mon." \o mon.Name

\* fmt.Sprintf("%s_%s", mon.Hostname, mon.Name)
MONNodeName(mon) == mon.Hostname \o "_" \o mon.Name

MonIfaceMetadata(mon) ==
    [Type |-> "socket", Address |-> mon.Addr, RelationType |-> ""]

\* mutant of graphMon: the interface is resolved before the object node is
\* created, as graphOSD does
graphMon_ResolveFirst(st, mon) ==
    LET lookupNode == LookupFirstNode(st, mon.Hostname, "host")
        nodeName   == MONNodeName(mon)
        match    == FindStringSubmatch(mon.Addr)
        monIP    == match[2] \o "/32"
        monIface == LookupFirstChildMon(st, lookupNode, monIP)
        s1 == NewNode(st, nodeName, ObjectMetadata("MON", MONName(mon), mon))
        s2 == AddOwnershipLink(s1, lookupNode, nodeName)
    IN  IF lookupNode = NoNode THEN [st |-> st, ok |-> FALSE]
        ELSE IF Len(mon.Addr) <= 0 THEN [st |-> s2, ok |-> TRUE]
        ELSE IF Len(match) # 3 \/ Len(match[2]) = 0 THEN [st |-> st, ok |-> FALSE]
        ELSE IF monIface = NoNode THEN [st |-> st, ok |-> FALSE]
        ELSE [st |-> Link(s2, nodeName, monIface, MonIfaceMetadata(mon)), ok |-> TRUE]

\* mutant of graphMon: the object node is created under the identifier of
\* the host node
graphMon_HostKey(st, mon) ==
    LET lookupNode == LookupFirstNode(st, mon.Hostname, "host")
        nodeName   == lookupNode
        s1 == NewNode(st, nodeName, ObjectMetadata("MON", MONName(mon), mon))
        s2 == AddOwnershipLink(s1, lookupNode, nodeName)
        match    == FindStringSubmatch(mon.Addr)
        monIP    == match[2] \o "/32"
        monIface == LookupFirstChildMon(s2, lookupNode, monIP)
    IN  IF lookupNode = NoNode THEN [st |-> st, ok |-> FALSE]
        ELSE IF Len(mon.Addr) <= 0 THEN [st |-> s2, ok |-> TRUE]
        ELSE IF Len(match) # 3 \/ Len(match[2]) = 0 THEN [st |-> s2, ok |-> FALSE]
        ELSE IF monIface = NoNode THEN [st |-> s2, ok |-> FALSE]
        ELSE [st |-> Link(s2, nodeName, monIface, MonIfaceMetadata(mon)), ok |-> TRUE]

\* graphMon(p, mon): [st |-> the state it leaves, ok |-> its result].  The
\* object node and its ownership edge are created before the address of the
\* record is looked at.
graphMon(st, mon) ==
    LET lookupNode == LookupFirstNode(st, mon.Hostname, "host")
        nodeName   == MONNodeName(mon)
        s1 == NewNode(st, nodeName, ObjectMetadata("MON", MONName(mon), mon))
        s2 == AddOwnershipLink(s1, lookupNode, nodeName)
        match    == FindStringSubmatch(mon.Addr)
        monIP    == match[2] \o "/32"
        monIface == LookupFirstChildMon(s2, lookupNode, monIP)
    IN  IF lookupNode = NoNode THEN [st |-> st, ok |-> FALSE]
        ELSE IF Len(mon.Addr) <= 0 THEN [st |-> s2, ok |-> TRUE]
        ELSE IF Len(match) # 3 \/ Len(match[2]) = 0 THEN [st |-> s2, ok |-> FALSE]
        ELSE IF monIface = NoNode THEN [st |-> s2, ok |-> FALSE]
        ELSE [st |-> Link(s2, nodeName, monIface, MonIfaceMetadata(mon)), ok |-> TRUE]

\* the loop of graphMons over mons[i..].  run.mcalls records each call of
\* graphMon and its result.
RECURSIVE graphMonsLoop(_, _, _, _)
graphMonsLoop(st, mons, i, everythingGraphed) ==
    IF i > Len(mons) THEN [st |-> st, everythingGraphed |-> everythingGraphed]
    ELSE IF Len(mons[i].Hostname) = 0
         THEN graphMonsLoop(st, mons, i + 1, everythingGraphed)
    ELSE LET r == graphMon(st, mons[i])
             s == [r.st EXCEPT !.run.mcalls = Append(@, [i |-> i, mon |-> mons[i], ok |-> r.ok])]
         IN graphMonsLoop(s, mons, i + 1, everythingGraphed /\ r.ok)

\* graphMons(p, n): n is the metadata of the node it is called with
graphMons(st, n) ==
    LET metadata == n.CephMON
        fsid     == st.cluster.Fsid
        blob     == metadata[1]
        dec64    == Base64Decode(blob)
        dec      == GobDecode("mons", dec64.bytes)
        mons     == dec.val
        s0       == [st EXCEPT !.run.mfsid = fsid, !.run.mblob = metadata]
        loop     == graphMonsLoop([s0 EXCEPT !.run.mlooped = TRUE], mons, 1, TRUE)
    IN  IF metadata = Nil THEN s0
        ELSE IF MapGet(st.mons, fsid) = blob THEN s0
        ELSE IF dec64.err THEN s0
        ELSE IF dec.err THEN s0
        ELSE IF Len(mons) > 0
             THEN IF ~loop.everythingGraphed THEN loop.st
                  ELSE [loop.st EXCEPT !.mons = MapSet(@, fsid, blob),
                                       !.run.mret = TRUE]
        ELSE s0

\* ------------------------------------------------------------ analyzer.go
graphCluster_ResetOnError(st, n) ==
    LET metadata == n.CephCluster
        dec64    == Base64Decode(metadata[1])
        dec      == GobDecode("cluster", dec64.bytes)
    IN  IF metadata = Nil THEN st
        ELSE IF dec64.err THEN [st EXCEPT !.cluster = CLUSTER("")]
        ELSE IF dec.err THEN [st EXCEPT !.cluster = CLUSTER("")]
        ELSE [st EXCEPT !.cluster = dec.val[1]]

\* graphCluster(p, n)
graphCluster(st, n) ==
    LET metadata == n.CephCluster
        dec64    == Base64Decode(metadata[1])
        dec      == GobDecode("cluster", dec64.bytes)
    IN  IF metadata = Nil THEN st
        ELSE IF dec64.err THEN st
        ELSE IF dec.err THEN st
        ELSE [st EXCEPT !.cluster = dec.val[1]]

\* mutant of onNodeEvent: graphOSDs is called whatever the tracked Fsid
onNodeEvent_NoFsidTest(st, n) ==
    LET s1 == graphCluster(st, n)
    IN  graphOSDs(s1, n)

\* (p *Probe) onNodeEvent(n)
onNodeEvent(st, n) ==
    LET s1 == graphCluster(st, n)
    IN  IF Len(s1.cluster.Fsid) = 0 THEN s1 ELSE graphOSDs(s1, n)

\* (p *Probe) OnNodeUpdated(n)
OnNodeUpdated(st, n) == onNodeEvent(st, n)

\* (p *Probe) OnNodeAdded(n)
OnNodeAdded(st, n) ==
    onNodeEvent([st EXCEPT !.clusters = MapSet(@, st.cluster.Fsid, EmptyString)], n)

\* mutant of OnNodeDeleted: the object nodes are taken out of the graph with
\* their edges, to be rendered anew
OnNodeDeleted_Prune(st, n) ==
    LET keep == {id \in DOMAIN st.nodes : st.nodes[id].Type # "OSD"}
    IN  [st EXCEPT !.clusters = MapSet(@, st.cluster.Fsid, EmptyString),
                   !.nodes = [id \in keep |-> st.nodes[id]],
                   !.owner = {e \in @ : e[1] \in keep /\ e[2] \in keep},
                   !.links = [e \in {x \in DOMAIN st.links : x.src \in keep /\ x.dst \in keep}
                                |-> st.links[e]]]

\* (p *Probe) OnNodeDeleted(n)
OnNodeDeleted(st, n) ==
    [st EXCEPT !.clusters = MapSet(@, st.cluster.Fsid, EmptyString)]

\* ------------------------------------------------------------ the system
VARIABLES
    nodes,      \* the graph: node identifier -> metadata
    owner,      \* the graph: ownership edges
    links,      \* the graph: bag of the other edges
    cluster,    \* p.cluster
    clusters,   \* p.clusters
    mons,       \* p.mons
    pending,    \* object nodes whose node-added event is still to be delivered
    run,        \* history: what graphOSDs did in the last handler
    last,       \* history: the last event, what it found and what it added
    rendered,   \* history: <<Fsid, blob>> of every pass that set the ledger
    failed,     \* history: <<Fsid, blob>> whose latest pass failed
    fresh,      \* history: <<Fsid, blob>> of the latest successful pass of each
                \*          Fsid, emptied by every node-added or -deleted event
    events,     \* history: number of events handled
    pool,       \* the OSD blobs the collector may attach in this behaviour
    mpool,      \* the monitor blobs the collector may attach in this behaviour
    limit,      \* the number of events of this behaviour
    agent,      \* the InfoProbe of the agent: its task, and history of its cycles
    threads,    \* the callbacks in progress when events are delivered concurrently
    hardware    \* the agent's createRootNode: the lshw document and what became of it

vars == <<nodes, owner, links, cluster, clusters, mons, pending, run, last, rendered,
          failed, fresh, events, pool, mpool, limit, agent, threads, hardware>>

\* what the analyzer probe and its events leave alone
off == <<agent, threads, hardware>>

\* NewAgentProbe: Start has not been called
NoAgent == [hostNode |-> NoNode, started |-> FALSE, task |-> "none", stopped |-> FALSE,
            cycles |-> 0, outs |-> Nil, before |-> Nil, late |-> FALSE,
            by |-> "none", log |-> <<>>]
\* agent.late: a tick after Stop returned has attached a snapshot;
\* agent.by: what ran the latest cycle, Start itself or the ticking task;
\* agent.log: the node-updated events of the latest cycle, as handled
\* the threads that deliver events concurrently
Threads == {"t1", "t2"}
\* a thread that is in no callback; key, everythingGraphed and wrote are
\* history: the <<Fsid, blob>> compared with the ledger, the result of the
\* loop, and the <<Fsid, blob>> written to the ledger
NoCallback == [pc |-> "idle", op |-> "none", node |-> NoNode, key |-> Nil,
               everythingGraphed |-> FALSE, wrote |-> Nil]
\* createRootNode has not run
NoHardware == [status |-> "start", lshw |-> Nil, Hardware |-> Nil, depth |-> 0]
InitOff ==
    /\ agent = NoAgent
    /\ threads = [t \in Threads |-> NoCallback]
    /\ hardware = NoHardware

\* no handler has run
NoRun == [fsid |-> "", blob |-> Nil, looped |-> FALSE, calls |-> <<>>, ret |-> FALSE,
          mfsid |-> "", mblob |-> Nil, mlooped |-> FALSE, mcalls |-> <<>>, mret |-> FALSE]

\* the probe-and-graph state a handler starts from
Current ==
    [nodes |-> nodes, owner |-> owner, links |-> links, cluster |-> cluster,
     clusters |-> clusters, mons |-> mons, pending |-> pending, run |-> NoRun]

\* the record is in the graph of st: its object node, owned by its host, with
\* an edge to each interface it declares
MaterializedIn(st, osd) ==
    \E id \in DOMAIN st.nodes :
        /\ st.nodes[id].Type = "OSD" /\ st.nodes[id].Ceph = Some(osd)
        /\ \E hd \in DOMAIN st.nodes :
              /\ st.nodes[hd].Type = "host" /\ st.nodes[hd].Name = osd.Hostname
              /\ <<hd, id>> \in st.owner
        /\ osd.FrontIface # "" =>
              \E e \in DOMAIN st.links :
                  /\ e.src = id /\ e.dst \in DOMAIN st.nodes
                  /\ st.nodes[e.dst].Name = osd.FrontIface
                  /\ e.meta.RelationType = "frontIface"
        /\ osd.BackIface # "" =>
              \E e \in DOMAIN st.links :
                  /\ e.src = id /\ e.dst \in DOMAIN st.nodes
                  /\ st.nodes[e.dst].Name = osd.BackIface
                  /\ e.meta.RelationType = "backIface"

\* the OSD attribute o decodes to records of which some have a Hostname, and
\* all of those are in the graph of st
AllMaterializedIn(st, o) ==
    LET osds == IF o = Nil THEN <<>>
                ELSE GobDecode("osds", Base64Decode(o[1]).bytes).val
    IN /\ \E i \in 1..Len(osds) : osds[i].Hostname # ""
       /\ \A i \in 1..Len(osds) : osds[i].Hostname # "" => MaterializedIn(st, osds[i])

\* <<Fsid, blob>> of the pass an event on a node with OSD attribute o asks for
PassKey(fsid, o) == <<fsid, IF o = Nil THEN EmptyString ELSE o[1]>>

\* The handler of event op on node id (metadata n) started from s0 and left
\* s: s becomes the next state, and the history variables record the event.
\* last.latest keeps, per identity, the blob of the latest pass that returned
\* true, and whether a node-added or node-deleted event was delivered since
\* while that identity was the tracked one.
Commit(op, id, n, s0, s) ==
    LET key  == PassKey(s.cluster.Fsid, n.CephOSD)
        base == IF op \in {"added", "deleted"} THEN {} ELSE fresh
        reset == IF op \in {"added", "deleted"} /\ cluster.Fsid \in DOMAIN last.latest
                 THEN [last.latest EXCEPT ![cluster.Fsid].reset = TRUE]
                 ELSE last.latest
    IN
    /\ nodes' = s.nodes
    /\ owner' = s.owner
    /\ links' = s.links
    /\ cluster' = s.cluster
    /\ clusters' = s.clusters
    /\ mons' = s.mons
    /\ pending' = s.pending
    /\ run' = s.run
    /\ last' = [op |-> op, node |-> id, osd |-> n.CephOSD, summary |-> n.CephCluster,
                mon |-> n.CephMON, rerender |-> AllMaterializedIn(s0, n.CephOSD),
                tracked |-> cluster.Fsid, fsid |-> s.cluster.Fsid,
                before |-> MapGet(clusters, s.cluster.Fsid),
                seen |-> n.CephOSD # Nil /\ key \in rendered,
                retry |-> n.CephOSD # Nil /\ key \in failed,
                fresh |-> n.CephOSD # Nil /\ key \in base,
                newNodes |-> DOMAIN s.nodes \ DOMAIN s0.nodes,
                newOwner |-> s.owner \ s0.owner,
                newLinks |-> {e \in DOMAIN s.links : CopiesIn(e, s.links) > CopiesIn(e, s0.links)},
                changed |-> {[id |-> x, was |-> s0.nodes[x].Type, rec |-> s0.nodes[x].Ceph] :
                                x \in {y \in DOMAIN s0.nodes :
                                          y \notin DOMAIN s.nodes \/ s.nodes[y] # s0.nodes[y]}},
                latest |-> IF s.run.ret
                           THEN MapSet(reset, key[1], [blob |-> key[2], reset |-> FALSE])
                           ELSE reset,
                lostOwner |-> s0.owner \ s.owner,
                lostLinks |-> {e \in DOMAIN s0.links :
                                 CopiesIn(e, s.links) < CopiesIn(e, s0.links)}]
    /\ rendered' = IF s.run.ret THEN rendered \cup {key} ELSE rendered
    /\ failed' = IF s.run.ret THEN failed \ {key}
                 ELSE IF s.run.looped THEN failed \cup {key}
                 ELSE failed
    /\ fresh' = IF s.run.ret THEN {k \in base : k[1] # key[1]} \cup {key} ELSE base
    /\ events' = events + 1
    /\ UNCHANGED <<pool, mpool, limit>>
    /\ UNCHANGED off

\* the cluster summaries a collector may attach: one per Fsid, and a blob
\* that does not decode
ClusterBlobs == {EncodeCluster(CLUSTER(f)) : f \in Fsids} \cup {NotGob}

\* a host node appears in the graph; it may already carry snapshots
HostAdded(h, c, o, m) ==
    /\ events < limit
    /\ HostID(h) \notin DOMAIN nodes
    /\ h \notin OSDCarriers => o = Nil
    /\ LET n  == HostMetadata(h, c, o, m)
           s0 == [Current EXCEPT !.nodes = (HostID(h) :> n) @@ @]
       IN Commit("added", HostID(h), n, s0, OnNodeAdded(s0, n))

\* an interface node appears under a host
IfaceAdded(h, i) ==
    /\ events < limit
    /\ HostID(h) \in DOMAIN nodes
    /\ IfaceID(h, i) \notin DOMAIN nodes
    /\ LET n  == IfaceMetadata(i, IfaceIPV4(h, i), IfaceEncap(h, i))
           s0 == [Current EXCEPT !.nodes = (IfaceID(h, i) :> n) @@ @,
                                 !.owner = @ \cup {<<HostID(h), IfaceID(h, i)>>}]
       IN Commit("added", IfaceID(h, i), n, s0, OnNodeAdded(s0, n))

\* ReadCluster attaches a cluster summary to the host node, which is updated
CollectCluster(h, c) ==
    /\ events < limit
    /\ HostID(h) \in DOMAIN nodes
    /\ LET n  == [nodes[HostID(h)] EXCEPT !.CephCluster = Some(c)]
           s0 == [Current EXCEPT !.nodes[HostID(h)] = n]
       IN Commit("updated", HostID(h), n, s0, OnNodeUpdated(s0, n))

\* ReadOSD attaches an OSD snapshot to the host node, which is updated
CollectOSD(h, o) ==
    /\ events < limit
    /\ HostID(h) \in DOMAIN nodes
    /\ LET n  == [nodes[HostID(h)] EXCEPT !.CephOSD = Some(o)]
           s0 == [Current EXCEPT !.nodes[HostID(h)] = n]
       IN Commit("updated", HostID(h), n, s0, OnNodeUpdated(s0, n))

\* a node is updated without a change to its snapshots
NodeUpdated(id) ==
    /\ events < limit
    /\ id \in DOMAIN nodes
    /\ Commit("updated", id, nodes[id], Current, OnNodeUpdated(Current, nodes[id]))

\* the node-added event of a node created by the probe is delivered
ObjectAdded(id) ==
    /\ events < limit
    /\ id \in pending
    /\ id \in DOMAIN nodes
    /\ LET s0 == [Current EXCEPT !.pending = @ \ {id}]
       IN Commit("added", id, nodes[id], s0, OnNodeAdded(s0, nodes[id]))

\* a node leaves the graph with its edges
NodeDeleted(id) ==
    /\ events < limit
    /\ id \in DOMAIN nodes
    /\ LET keep == DOMAIN nodes \ {id}
           s0 == [Current EXCEPT
                    !.nodes = [x \in keep |-> nodes[x]],
                    !.owner = {e \in @ : e[1] # id /\ e[2] # id},
                    !.links = [e \in {x \in DOMAIN links : x.src # id /\ x.dst # id}
                                 |-> links[e]],
                    !.pending = @ \ {id}]
       IN Commit("deleted", id, nodes[id], s0, OnNodeDeleted(s0, nodes[id]))

\* graphMons is run on a node of the graph
MonsGraphed(id) ==
    /\ events < limit
    /\ id \in DOMAIN nodes
    /\ Commit("mons", id, nodes[id], Current, graphMons(Current, nodes[id]))

Next ==
    \/ \E h \in HostNames, c \in {Nil} \cup {Some(b) : b \in ClusterBlobs},
          o \in {Nil} \cup {Some(b) : b \in pool} : HostAdded(h, c, o, Nil)
    \/ \E s \in IfaceSlots : IfaceAdded(s[1], s[2])
    \/ \E h \in HostNames, c \in ClusterBlobs : CollectCluster(h, c)
    \/ \E h \in OSDCarriers, o \in pool : CollectOSD(h, o)
    \/ \E id \in DOMAIN nodes : NodeUpdated(id)
    \/ \E id \in pending : ObjectAdded(id)
    \/ \E id \in DOMAIN nodes : NodeDeleted(id)

\* the graph the probe is attached to: some hosts with some of their
\* interfaces, every host carrying cluster summary c and OSD snapshot o
InitGraph(hs, is, c, o, m) ==
    /\ nodes = [id \in {HostID(h) : h \in hs} \cup {IfaceID(s[1], s[2]) : s \in is} |->
                  IF id \in {HostID(h) : h \in hs}
                  THEN HostMetadata(id, c, o, m)
                  ELSE LET s == CHOOSE s \in is : IfaceID(s[1], s[2]) = id
                       IN IfaceMetadata(s[2], IfaceIPV4(s[1], s[2]), IfaceEncap(s[1], s[2]))]
    /\ owner = {<<HostID(s[1]), IfaceID(s[1], s[2])>> : s \in is}
    /\ links = EmptyBag

\* NewAnalyzerProbe
InitProbe ==
    /\ cluster = CLUSTER("")
    /\ clusters = << >>
    /\ mons = << >>
    /\ pending = {}
    /\ run = NoRun
    /\ last = [op |-> "none", node |-> NoNode, osd |-> Nil, summary |-> Nil, mon |-> Nil,
               rerender |-> FALSE,
               tracked |-> "", fsid |-> "", before |-> EmptyString,
               seen |-> FALSE, retry |-> FALSE, fresh |-> FALSE,
               newNodes |-> {}, newOwner |-> {}, newLinks |-> {},
               changed |-> {}, latest |-> <<>>, lostOwner |-> {}, lostLinks |-> {}]
    /\ rendered = {}
    /\ failed = {}
    /\ fresh = {}
    /\ events = 0

\* the snapshots the collector of Spec reports
Snap1 == <<OSD("h1", 0, "eth0", "eth1", "x"), OSD("h2", 1, "", "", "x")>>
Snap2 == <<OSD("h1", 0, "", "", "y"), OSD("", 1, "eth0", "", "x")>>
SpecPool == {EncodeOSDs(Snap1), EncodeOSDs(Snap2)}

Init ==
    /\ \E hs \in SUBSET HostNames :
         \E is \in SUBSET {s \in IfaceSlots : s[1] \in hs} : InitGraph(hs, is, Nil, Nil, Nil)
    /\ InitProbe
    /\ InitOff
    /\ pool = SpecPool
    /\ mpool = {}
    /\ limit = MaxEvents

Spec == Init /\ [][Next]_vars

\* ------------------------------------------------- one snapshot, any content
\* SpecPass: the probe is attached to a graph whose hosts already carry a
\* cluster summary and one OSD snapshot, drawn from every list of at most
\* MaxRecs records; the events are updates and additions.
PassRecords ==
    {OSD(h, id, f, b, "x") :
        h \in {"", "h1", "h2"}, id \in {0}, f \in {"", "eth0"}, b \in {"", "eth1"}}

RECURSIVE SeqsUpTo(_, _)
SeqsUpTo(S, n) ==
    IF n = 0 THEN {<<>>}
    ELSE LET shorter == SeqsUpTo(S, n - 1)
         IN shorter \cup {Append(q, x) : q \in {t \in shorter : Len(t) = n - 1}, x \in S}

PassBlobs ==
    {EncodeOSDs(q) : q \in SeqsUpTo(PassRecords, MaxRecs)}
        \cup {NotBase64, NotGob, EmptyString}

ClusterA == EncodeCluster(CLUSTER("A"))

InitPass ==
    /\ \E b \in PassBlobs :
         /\ pool = {b}
         /\ \E hs \in SUBSET HostNames :
              \E is \in SUBSET {s \in IfaceSlots : s[1] \in hs} :
                 InitGraph(hs, is, Some(ClusterA), Some(b), Nil)
    /\ InitProbe
    /\ InitOff
    /\ mpool = {}
    /\ limit = PassEvents

NextPass ==
    \/ \E h \in HostNames, o \in pool : HostAdded(h, Some(ClusterA), Some(o), Nil)
    \/ \E s \in IfaceSlots : IfaceAdded(s[1], s[2])
    \/ \E h \in HostNames : NodeUpdated(HostID(h))

SpecPass == InitPass /\ [][NextPass]_vars

\* --------------------------------------------------- no node is deleted
\* SpecNoDelete: the behaviours of Spec in which no node-deleted event occurs
NextNoDelete ==
    \/ \E h \in HostNames, c \in {Nil} \cup {Some(b) : b \in ClusterBlobs},
          o \in {Nil} \cup {Some(b) : b \in pool} : HostAdded(h, c, o, Nil)
    \/ \E s \in IfaceSlots : IfaceAdded(s[1], s[2])
    \/ \E h \in HostNames, c \in ClusterBlobs : CollectCluster(h, c)
    \/ \E h \in OSDCarriers, o \in pool : CollectOSD(h, o)
    \/ \E id \in DOMAIN nodes : NodeUpdated(id)
    \/ \E id \in pending : ObjectAdded(id)

SpecNoDelete == Init /\ [][NextNoDelete]_vars

\* ------------------------------------------- OSD and monitor snapshots
\* SpecLinks: the hosts carry a cluster summary, an OSD snapshot and a
\* monitor snapshot, the monitor snapshot drawn from every list of at most
\* MaxMons records; node events run the OSD pass, and graphMons is run on the
\* hosts.
LinkSlots == IfaceSlots \cup {<<"h1", "lo">>}

LinkSnaps ==
    {EncodeOSDs(<<OSD("h1", 0, "eth0", "eth1", "x")>>),
     EncodeOSDs(<<OSD("h2", 1, "eth0", "", "x"), OSD("h1", 1, "", "eth0", "x")>>)}

MonRecords == {MON("a", a, h) : a \in MonAddrs, h \in {"", "h1", "h2"}}

MonBlobs == {EncodeMons(q) : q \in SeqsUpTo(MonRecords, MaxMons)} \cup {NotGob}

InitLinks ==
    /\ \E o \in LinkSnaps, m \in MonBlobs :
         /\ pool = {o}
         /\ mpool = {m}
         /\ \E hs \in SUBSET HostNames :
              \E is \in SUBSET {s \in LinkSlots : s[1] \in hs} :
                 InitGraph(hs, is, Some(ClusterA), Some(o), Some(m))
    /\ InitProbe
    /\ InitOff
    /\ limit = LinkEvents

NextLinks ==
    \/ \E h \in HostNames, o \in pool, m \in mpool :
          HostAdded(h, Some(ClusterA), Some(o), Some(m))
    \/ \E s \in LinkSlots : IfaceAdded(s[1], s[2])
    \/ \E h \in HostNames : NodeUpdated(HostID(h))
    \/ \E h \in HostNames : MonsGraphed(HostID(h))

SpecLinks == InitLinks /\ [][NextLinks]_vars

\* ------------------------------------------------- recurring update events
\* SpecRetry: the behaviours of the events of SpecPass on one snapshot, in
\* which the update events of the hosts recur (the collector attaches its
\* snapshots again at every tick of its timer) as long as events are handled.
RetryBlobs == {EncodeOSDs(q) : q \in SeqsUpTo(PassRecords, 1)} \cup {EncodeOSDs(Snap1)}

InitRetry ==
    /\ \E b \in RetryBlobs :
         /\ pool = {b}
         /\ \E hs \in SUBSET HostNames :
              \E is \in SUBSET {s \in IfaceSlots : s[1] \in hs} :
                 InitGraph(hs, is, Some(ClusterA), Some(b), Nil)
    /\ InitProbe
    /\ InitOff
    /\ mpool = {}
    /\ limit = RetryEvents

\* an update event of a host
HostUpdated == \E h \in HostNames : NodeUpdated(HostID(h))

\* HostUpdated can happen: an update event always changes events, so this is
\* ENABLED <<HostUpdated>>_vars
HostUpdatedEnabled == events < limit /\ \E h \in HostNames : HostID(h) \in DOMAIN nodes

\* weak fairness of HostUpdated, which is WF_vars(HostUpdated) with its
\* ENABLED written as HostUpdatedEnabled
SpecRetry ==
    /\ InitRetry
    /\ [][NextPass]_vars
    /\ ([]<>~HostUpdatedEnabled \/ []<><<HostUpdated>>_vars)

\* ===================================================================== claims
\* the records of an OSD attribute, <<>> when it is absent or does not decode
DecodedOSDs(o) ==
    IF o = Nil THEN <<>> ELSE GobDecode("osds", Base64Decode(o[1]).bytes).val

\* the OSD attribute is present and decodes
Decodable(o) ==
    /\ o # Nil
    /\ ~Base64Decode(o[1]).err
    /\ ~GobDecode("osds", Base64Decode(o[1]).bytes).err

\* the graph holds a host node of that name
HostPresent(h) ==
    \E id \in DOMAIN nodes : nodes[id].Type = "host" /\ nodes[id].Name = h

\* the graph holds an interface of that name under the host of that name
IfacePresent(h, i) ==
    \E hd \in DOMAIN nodes, id \in DOMAIN nodes :
        /\ nodes[hd].Type = "host" /\ nodes[hd].Name = h
        /\ <<hd, id>> \in owner /\ nodes[id].Name = i

\* the host and every declared interface of the record are in the graph.
\* A handler adds or removes no host and no interface, so this is the same
\* before and after it.
Resolves(osd) ==
    /\ HostPresent(osd.Hostname)
    /\ osd.FrontIface # "" => IfacePresent(osd.Hostname, osd.FrontIface)
    /\ osd.BackIface # "" => IfacePresent(osd.Hostname, osd.BackIface)

\* the records of the snapshot that graphOSDs does not skip
Placed(osds) == {i \in 1..Len(osds) : osds[i].Hostname # ""}

\* the last event was a node-added or node-updated event
Observed == last.op \in {"added", "updated"}

\* the handler of the last event added nothing to the graph
NothingAdded == last.newNodes = {} /\ last.newOwner = {} /\ last.newLinks = {}

\* the last handler ran a pass that failed / a pass that succeeded
PassFailed == run.looped /\ ~run.ret
PassSucceeded == run.looped /\ run.ret

\* the record is in the graph: its object node, owned by its host, with an
\* edge to each interface it declares
Materialized(osd) ==
    \E id \in DOMAIN nodes :
        /\ nodes[id].Type = "OSD" /\ nodes[id].Ceph # Nil
        /\ nodes[id].Ceph[1].Hostname = osd.Hostname /\ nodes[id].Ceph[1].ID = osd.ID
        /\ \E hd \in DOMAIN nodes :
              nodes[hd].Type = "host" /\ nodes[hd].Name = osd.Hostname /\ <<hd, id>> \in owner
        /\ osd.FrontIface # "" =>
              \E e \in DOMAIN links :
                  /\ e.src = id /\ nodes[e.dst].Name = osd.FrontIface
                  /\ e.meta.RelationType = "frontIface"
        /\ osd.BackIface # "" =>
              \E e \in DOMAIN links :
                  /\ e.src = id /\ nodes[e.dst].Name = osd.BackIface
                  /\ e.meta.RelationType = "backIface"

\* C1 as stated: once a pass of blob b under identity I has succeeded, a later
\* node-added or node-updated event carrying b under I processes no record
\* and adds no node and no edge.
Cex_C1 ==
    (Observed /\ last.seen) => (run.calls = <<>> /\ NothingAdded)

\* C1 amended: while the ledger entry of I is b, a node-updated event carrying
\* b under I short-circuits: graphOSDs does not reach its loop, processes no
\* record and adds no node and no edge; and a non-empty ledger entry is
\* always a blob that a successful pass of that identity rendered.
Thm_C1 ==
    /\ (last.op = "updated" /\ last.osd # Nil /\ last.before = last.osd[1]) =>
          (~run.looped /\ run.calls = <<>> /\ NothingAdded
           /\ MapGet(clusters, last.fsid) = last.before)
    /\ \A f \in DOMAIN clusters :
          clusters[f] # EmptyString => <<f, clusters[f]>> \in rendered

\* C1 witness: an update event found in the ledger the blob it carries, a
\* blob with a record to place that an earlier pass rendered
Wit_C1 ==
    /\ last.op = "updated" /\ last.seen /\ last.fsid # ""
    /\ last.before = last.osd[1]
    /\ Placed(DecodedOSDs(last.osd)) # {}
    /\ ~run.looped

\* the snapshot of the last event, and whether it is a snapshot of
\* located records (none with an empty Hostname) of which exactly one,
\* at position k, does not resolve
LastOSDs == DecodedOSDs(last.osd)

OneFails(k) ==
    /\ Len(LastOSDs) >= 1
    /\ Placed(LastOSDs) = 1..Len(LastOSDs)
    /\ {i \in 1..Len(LastOSDs) : ~Resolves(LastOSDs[i])} = {k}

\* C2: when exactly one record k of a snapshot of N located records fails to
\* resolve, whatever k, the pass calls graphOSD on all N records, the N-1
\* others are materialized (object node, ownership edge, interface edges),
\* the ledger entry of the identity is not this blob, and an event that
\* carries the same blob under the same identity after a failed pass runs
\* the loop over all N records again.
Thm_C2 ==
    /\ \A k \in 1..Len(LastOSDs) :
          (run.looped /\ OneFails(k)) =>
             /\ Len(run.calls) = Len(LastOSDs)
             /\ \A i \in 1..Len(LastOSDs) : run.calls[i].ok = (i # k)
             /\ \A i \in 1..Len(LastOSDs) : i # k => Materialized(LastOSDs[i])
             /\ PassFailed
             /\ MapGet(clusters, last.fsid) # last.osd[1]
    /\ (Observed /\ last.retry) =>
          /\ run.looped
          /\ Len(run.calls) = Cardinality(Placed(LastOSDs))
          /\ \A i \in 1..Len(run.calls) : run.calls[i].osd = LastOSDs[run.calls[i].i]
    /\ \A key \in failed : MapGet(clusters, key[1]) # key[2]

\* C2 witness: a pass over two located records of which the first fails and
\* the second is materialized, run as the retry of a failed pass of the blob
Wit_C2 ==
    /\ Observed /\ last.retry /\ run.looped
    /\ Len(LastOSDs) = 2 /\ OneFails(1)
    /\ Len(run.calls) = 2
    /\ Materialized(LastOSDs[2])

Cex_C4 ==
    ~(last.seen /\ PassSucceeded)

\* C4 amended: with no node-deleted event, a pass of blob b under identity I
\* does not succeed again while b is the latest blob rendered under I and no
\* node-added event has come since: between two successful passes of b
\* under I there is a node-added event or a successful pass of another blob
\* under I.
Thm_C4 ==
    last.fresh => (~run.looped /\ NothingAdded)

\* C4 witness: an update event carried the blob of the latest successful pass
\* of its identity, a blob with a record to place, and no pass ran
Wit_C4 ==
    /\ last.op = "updated" /\ last.fresh /\ last.seen
    /\ Placed(LastOSDs) # {}
    /\ ~run.looped /\ ~run.ret

\* the Fsid of the cluster summary of the node of the last event, "" when it
\* has none or it does not decode
LastSummaryFsid ==
    IF last.summary = Nil THEN ""
    ELSE LET d == GobDecode("cluster", Base64Decode(last.summary[1]).bytes)
         IN IF d.err THEN "" ELSE d.val[1].Fsid

\* C5: after the node-deleted event of a host node that carried the snapshot
\* of identity I, the ledger entry of I is none of the blobs rendered under I.
Cex_C5 ==
    (last.op = "deleted" /\ last.osd # Nil /\ LastSummaryFsid # "") =>
        \A key \in rendered :
            key[1] = LastSummaryFsid => MapGet(clusters, LastSummaryFsid) # key[2]

\* C6 as stated: an event on a node carrying a decodable blob b, of any number
\* of records, under a non-empty identity whose ledger entry is not b, sets
\* the ledger entry to b if every record resolves.
Cex_C6 ==
    (/\ Observed /\ Decodable(last.osd) /\ last.fsid # ""
     /\ last.before # last.osd[1]
     /\ \A i \in Placed(LastOSDs) : Resolves(LastOSDs[i]))
    => MapGet(clusters, last.fsid) = last.osd[1]

\* C6 amended: the same for a blob of at least one record; graphOSDs returns
\* before the ledger update for a snapshot of no record.
Thm_C6 ==
    (/\ Observed /\ Decodable(last.osd) /\ last.fsid # ""
     /\ last.before # last.osd[1]
     /\ Len(LastOSDs) >= 1
     /\ \A i \in Placed(LastOSDs) : Resolves(LastOSDs[i]))
    => (PassSucceeded /\ MapGet(clusters, last.fsid) = last.osd[1])

\* C6 witness: a pass over two located records that all resolve has set the
\* ledger entry to the blob
Wit_C6 ==
    /\ Observed /\ Decodable(last.osd) /\ last.fsid # ""
    /\ last.before # last.osd[1]
    /\ Len(LastOSDs) = 2 /\ Placed(LastOSDs) = {1, 2}
    /\ \A i \in Placed(LastOSDs) : Resolves(LastOSDs[i])
    /\ MapGet(clusters, last.fsid) = last.osd[1]

\* C8: a record with an empty Hostname is skipped: graphOSD is not called
\* on it, no object node holds such a record, and it does not fail the pass:
\* when the other records resolve the pass succeeds and sets the ledger.
Thm_C8 ==
    /\ \A i \in 1..Len(run.calls) : run.calls[i].osd.Hostname # ""
    /\ \A id \in DOMAIN nodes :
          nodes[id].Ceph # Nil => nodes[id].Ceph[1].Hostname # ""
    /\ (run.looped /\ \A i \in Placed(LastOSDs) : Resolves(LastOSDs[i])) =>
          (run.ret /\ MapGet(clusters, last.fsid) = last.osd[1])

\* C8 witness: a pass over a snapshot with one record without Hostname and
\* one located record succeeded; one record was placed
Wit_C8 ==
    /\ PassSucceeded
    /\ Len(LastOSDs) = 2 /\ Cardinality(Placed(LastOSDs)) = 1
    /\ Len(run.calls) = 1
    /\ MapGet(clusters, last.fsid) = last.osd[1]

\* the object nodes of OSD records
OSDNodes == {id \in DOMAIN nodes : nodes[id].Type = "OSD"}

\* C9: the identifier of an OSD object node is a function of (Hostname, ID) of
\* its record: no two object nodes hold records of the same Hostname and ID,
\* and after a pass the node of each record that graphOSD accepted carries
\* the latest accepted record of that Hostname and ID.
Thm_C9 ==
    /\ \A a \in OSDNodes, b \in OSDNodes :
          (/\ nodes[a].Ceph[1].Hostname = nodes[b].Ceph[1].Hostname
           /\ nodes[a].Ceph[1].ID = nodes[b].Ceph[1].ID) => a = b
    /\ \A i \in 1..Len(run.calls) :
          run.calls[i].ok =>
             LET same == {j \in 1..Len(run.calls) :
                             /\ run.calls[j].ok
                             /\ run.calls[j].osd.Hostname = run.calls[i].osd.Hostname
                             /\ run.calls[j].osd.ID = run.calls[i].osd.ID}
                 latest == CHOOSE j \in same : \A x \in same : x <= j
             IN \E id \in OSDNodes : nodes[id].Ceph = Some(run.calls[latest].osd)

\* C9 witness: two snapshots were rendered under one identity, with a record
\* of the same Hostname and ID and another Arch; the node carries the later
Wit_C9 ==
    /\ PassSucceeded
    /\ \E key \in rendered :
          /\ key[1] = last.fsid /\ key[2] # last.osd[1]
          /\ \E i \in 1..Len(key[2].val), j \in 1..Len(LastOSDs) :
                /\ key[2].val[i].Hostname = LastOSDs[j].Hostname
                /\ key[2].val[i].ID = LastOSDs[j].ID
                /\ LastOSDs[j].Hostname # ""
                /\ key[2].val[i].Arch # LastOSDs[j].Arch
                /\ \E id \in OSDNodes : nodes[id].Ceph = Some(LastOSDs[j])
                /\ Cardinality({id \in OSDNodes :
                                   /\ nodes[id].Ceph[1].Hostname = LastOSDs[j].Hostname
                                   /\ nodes[id].Ceph[1].ID = LastOSDs[j].ID}) = 1

\* the hosts and interfaces that no event has added yet
Missing ==
    Cardinality({h \in HostNames : HostID(h) \notin DOMAIN nodes})
        + Cardinality({sl \in IfaceSlots : IfaceID(sl[1], sl[2]) \notin DOMAIN nodes})

\* C7, each event: an event that carries a blob under an identity after a
\* pass of that blob under that identity failed runs the loop again over
\* every located record of the blob, and when all of them resolve the pass
\* succeeds and sets the ledger entry of the identity to the blob.
Retry_C7 ==
    /\ (Observed /\ last.retry) =>
          /\ run.looped
          /\ Len(run.calls) = Cardinality(Placed(LastOSDs))
          /\ \A i \in Placed(LastOSDs) :
                \E j \in 1..Len(run.calls) :
                    run.calls[j].i = i /\ run.calls[j].osd = LastOSDs[i]
    /\ (Observed /\ last.retry /\ \A i \in Placed(LastOSDs) : Resolves(LastOSDs[i])) =>
          (PassSucceeded /\ MapGet(clusters, last.fsid) = last.osd[1])

\* a pass of the blob failed under the tracked identity, every host and
\* interface its records refer to is now in the graph, and events are still
\* handled after the hosts and interfaces yet to come
RetryDue ==
    /\ \E key \in failed :
          /\ key[1] = cluster.Fsid /\ key[2] \in pool
          /\ \A i \in Placed(key[2].val) : Resolves(key[2].val[i])
    /\ events + Missing < limit

\* the ledger entry of the tracked identity is the blob of the behaviour
Synced == \E b \in pool : MapGet(clusters, cluster.Fsid) = b /\ <<cluster.Fsid, b>> \notin failed

\* C7: Retry_C7 holds after every event, and when the update events of the
\* hosts recur, a failed blob whose hosts and interfaces are all in the graph
\* is eventually the ledger entry of its identity.
Thm_C7 == []Retry_C7 /\ (RetryDue ~> Synced)

\* C7 witness: the pass of a blob failed, and a later event carrying the blob
\* ran the pass again, which succeeded and set the ledger entry
Wit_C7 ==
    /\ Observed /\ last.retry /\ PassSucceeded
    /\ Placed(LastOSDs) # {}
    /\ MapGet(clusters, last.fsid) = last.osd[1]
    /\ Synced

\* the edge goes from the object node of the OSD record to a child of the
\* host of the record, named as the front (back) interface of the record
EdgeOfOSD(e, osd) ==
    /\ nodes[e.src].Type = "OSD"
    /\ nodes[e.src].Ceph[1].Hostname = osd.Hostname /\ nodes[e.src].Ceph[1].ID = osd.ID
    /\ \E hd \in DOMAIN nodes :
          /\ nodes[hd].Type = "host" /\ nodes[hd].Name = osd.Hostname
          /\ <<hd, e.dst>> \in owner
    /\ \/ /\ e.meta.RelationType = "frontIface" /\ osd.FrontIface # ""
          /\ nodes[e.dst].Name = osd.FrontIface /\ e.meta.Address = osd.FrontAddr
       \/ /\ e.meta.RelationType = "backIface" /\ osd.BackIface # ""
          /\ nodes[e.dst].Name = osd.BackIface /\ e.meta.Address = osd.BackAddr

\* the edge goes from the object node of the monitor record to a child of the
\* host of the record, a device that is no loopback and holds the address of
\* the record
EdgeOfMON(e, mon) ==
    /\ nodes[e.src].Type = "MON"
    /\ nodes[e.src].Ceph[1].Hostname = mon.Hostname /\ nodes[e.src].Ceph[1].Name = mon.Name
    /\ \E hd \in DOMAIN nodes :
          /\ nodes[hd].Type = "host" /\ nodes[hd].Name = mon.Hostname
          /\ <<hd, e.dst>> \in owner
    /\ nodes[e.dst].Type = "device" /\ nodes[e.dst].EncapType # "loopback"
    /\ \E ip \in {"10.0.0.5", "10.0.1.5", "10.0.0.6", "127.0.0.1"} :
          /\ mon.Addr = ip \o ":6789/0"
          /\ nodes[e.dst].IPV4 \in {ip \o "/8", ip \o "/24", ip \o "/32"}
    /\ e.meta.Address = mon.Addr

\* C10: every edge a handler adds is the edge of a record that graphOSD or
\* graphMon accepted in that handler, towards the interface the record
\* declares, found among the children of the host of the record; and every
\* edge of the graph goes from an object node to a device.
Thm_C10 ==
    /\ \A e \in last.newLinks :
          \/ \E i \in 1..Len(run.calls) :
                run.calls[i].ok /\ EdgeOfOSD(e, run.calls[i].osd)
          \/ \E i \in 1..Len(run.mcalls) :
                run.mcalls[i].ok /\ EdgeOfMON(e, run.mcalls[i].mon)
    /\ \A e \in DOMAIN links :
          /\ e.src \in DOMAIN nodes /\ e.dst \in DOMAIN nodes
          /\ nodes[e.src].Type \in {"OSD", "MON"}
          /\ nodes[e.dst].Type = "device"

\* C10 witness: the graph holds an interface edge of an OSD and one of a
\* monitor, and the last handler added one of them
Wit_C10 ==
    /\ last.newLinks # {}
    /\ \E e \in DOMAIN links : nodes[e.src].Type = "OSD"
    /\ \E e \in DOMAIN links : nodes[e.src].Type = "MON"

\* the object node of a monitor record, owned by the host of the record
MonNodeOwned(mon) ==
    \E id \in DOMAIN nodes :
        /\ nodes[id].Type = "MON" /\ nodes[id].Ceph # Nil
        /\ nodes[id].Ceph[1].Hostname = mon.Hostname /\ nodes[id].Ceph[1].Name = mon.Name
        /\ \E hd \in DOMAIN nodes :
              nodes[hd].Type = "host" /\ nodes[hd].Name = mon.Hostname /\ <<hd, id>> \in owner

\* the object node of an OSD record, owned by the host of the record
OSDNodeOwned(osd) ==
    \E id \in DOMAIN nodes :
        /\ nodes[id].Type = "OSD" /\ nodes[id].Ceph # Nil
        /\ nodes[id].Ceph[1].Hostname = osd.Hostname /\ nodes[id].Ceph[1].ID = osd.ID
        /\ \E hd \in DOMAIN nodes :
              nodes[hd].Type = "host" /\ nodes[hd].Name = osd.Hostname /\ <<hd, id>> \in owner

\* C11 as stated: after a handler refused a record whose host is in the graph
\* (so an interface it declares did not resolve), the object node of the
\* record is in the graph, owned by the host, for OSD and monitor records.
Cex_C11 ==
    /\ \A i \in 1..Len(run.calls) :
          (~run.calls[i].ok /\ HostPresent(run.calls[i].osd.Hostname)) =>
              OSDNodeOwned(run.calls[i].osd)
    /\ \A i \in 1..Len(run.mcalls) :
          (~run.mcalls[i].ok /\ HostPresent(run.mcalls[i].mon.Hostname)) =>
              MonNodeOwned(run.mcalls[i].mon)

\* C11 amended: for a monitor record whose host resolves and whose interface
\* does not, the object node is in the graph, owned by the host, the handler
\* added no edge of the address of the record, and p.mons is not advanced;
\* for such an OSD record the handler added no node, no ownership edge and no
\* edge for the record, and p.clusters is not advanced.
Thm_C11 ==
    /\ \A i \in 1..Len(run.mcalls) :
          (~run.mcalls[i].ok /\ HostPresent(run.mcalls[i].mon.Hostname)) =>
              /\ MonNodeOwned(run.mcalls[i].mon)
              /\ \A e \in last.newLinks :
                    ~(/\ e.src = MONNodeName(run.mcalls[i].mon)
                      /\ e.meta.Address = run.mcalls[i].mon.Addr)
              /\ ~run.mret
              /\ MapGet(mons, run.mfsid) # run.mblob[1]
    /\ \A i \in 1..Len(run.calls) :
          (~run.calls[i].ok /\ HostPresent(run.calls[i].osd.Hostname)) =>
              /\ \A id \in last.newNodes : nodes[id].Ceph # Some(run.calls[i].osd)
              /\ \A e \in last.newOwner : nodes[e[2]].Ceph # Some(run.calls[i].osd)
              /\ \A e \in last.newLinks : nodes[e.src].Ceph # Some(run.calls[i].osd)
              /\ ~run.ret
              /\ MapGet(clusters, run.fsid) # run.blob[1]

\* C11 witness: graphMons created the object node of a record whose host is
\* in the graph and whose address no interface of the host holds, and added
\* no edge
Wit_C11 ==
    /\ \E i \in 1..Len(run.mcalls) :
          /\ ~run.mcalls[i].ok /\ HostPresent(run.mcalls[i].mon.Hostname)
          /\ run.mcalls[i].mon.Addr # ""
          /\ MonNodeOwned(run.mcalls[i].mon)
          /\ MONNodeName(run.mcalls[i].mon) \in last.newNodes
    /\ last.newLinks = {}

\* the records of a monitor attribute, <<>> when it is absent or does not
\* decode
DecodedMons(m) ==
    IF m = Nil THEN <<>> ELSE GobDecode("mons", Base64Decode(m[1]).bytes).val

\* the children of the host of a monitor record that are devices, not
\* loopback-encapsulated, and hold the IPv4 address of the Addr of the record
MonIfaces(mon) ==
    {id \in DOMAIN nodes :
        /\ \E hd \in DOMAIN nodes :
              /\ nodes[hd].Type = "host" /\ nodes[hd].Name = mon.Hostname
              /\ <<hd, id>> \in owner
        /\ nodes[id].Type = "device" /\ nodes[id].EncapType # "loopback"
        /\ \E ip \in {"10.0.0.5", "10.0.1.5", "10.0.0.6", "127.0.0.1"} :
              /\ mon.Addr = ip \o ":6789/0"
              /\ nodes[id].IPV4 \in {ip \o "/8", ip \o "/24", ip \o "/32"}}

\* C12: after a node-added or node-updated event whose node carries a monitor
\* snapshot, under a tracked identity, every record of the snapshot whose
\* host has a child device, not loopback, holding the address of the record
\* has its object node in the graph with an edge to such a device.
Cex_C12 ==
    (Observed /\ last.mon # Nil /\ last.fsid # "") =>
        \A i \in 1..Len(DecodedMons(last.mon)) :
            LET mon == DecodedMons(last.mon)[i]
            IN (mon.Hostname # "" /\ MonIfaces(mon) # {}) =>
                  /\ MonNodeOwned(mon)
                  /\ \E e \in DOMAIN links :
                        e.src = MONNodeName(mon) /\ e.dst \in MonIfaces(mon)

\* C13: a pass over a snapshot whose located records are all in the graph
\* already, each with its object node, its ownership edge and its interface
\* edges, adds no node, no ownership edge and no interface edge.
Cex_C13 ==
    (run.looped /\ last.rerender) =>
        (last.newNodes = {} /\ last.newOwner = {} /\ last.newLinks = {})

\* ------------------------------------------------- blobs that do not decode
\* SpecDecode: as Spec, with collectors whose cluster summaries and OSD
\* snapshots may be blobs that are no base64 or no gob stream.
DecodeEvents == 3
DecodeClusters == {EncodeCluster(CLUSTER("A")), NotBase64, NotGob}
DecodePool == {EncodeOSDs(Snap1), NotBase64, NotGob}

InitDecode ==
    /\ \E hs \in SUBSET HostNames :
         \E is \in SUBSET {s \in IfaceSlots : s[1] \in hs} : InitGraph(hs, is, Nil, Nil, Nil)
    /\ InitProbe
    /\ InitOff
    /\ pool = DecodePool
    /\ mpool = {}
    /\ limit = DecodeEvents

NextDecode ==
    \/ \E h \in HostNames, c \in {Nil} \cup {Some(b) : b \in DecodeClusters},
          o \in {Nil} \cup {Some(b) : b \in pool} : HostAdded(h, c, o, Nil)
    \/ \E s \in IfaceSlots : IfaceAdded(s[1], s[2])
    \/ \E h \in HostNames, c \in DecodeClusters : CollectCluster(h, c)
    \/ \E h \in OSDCarriers, o \in pool : CollectOSD(h, o)
    \/ \E id \in DOMAIN nodes : NodeUpdated(id)
    \/ \E id \in pending : ObjectAdded(id)
    \/ \E id \in DOMAIN nodes : NodeDeleted(id)

SpecDecode == InitDecode /\ [][NextDecode]_vars

\* the cluster attribute / the OSD attribute is present and does not decode
BadCluster(c) ==
    /\ c # Nil
    /\ \/ Base64Decode(c[1]).err
       \/ GobDecode("cluster", Base64Decode(c[1]).bytes).err
BadOSD(o) == o # Nil /\ ~Decodable(o)

\* C14 as stated: an event on a node whose cluster blob or OSD blob does not
\* decode creates no node and no edge and leaves the ledger and the tracked
\* cluster summary as they were.
Cex_C14 ==
    [][(/\ last'.op \in {"added", "updated"}
        /\ BadCluster(last'.summary) \/ BadOSD(last'.osd))
       => /\ last'.newNodes = {} /\ last'.newOwner = {} /\ last'.newLinks = {}
          /\ clusters' = clusters
          /\ cluster' = cluster]_vars

\* C14: an event on a node whose cluster blob does not decode leaves the
\* tracked cluster summary as it was; an event on a node whose OSD blob does
\* not decode creates no node and no edge, and leaves the ledger as it was
\* but for the entry of the tracked Fsid that a node-added event empties.
Thm_C14 ==
    [][last'.op \in {"added", "updated"}
       => /\ BadCluster(last'.summary) => cluster' = cluster
          /\ BadOSD(last'.osd) =>
               /\ last'.newNodes = {} /\ last'.newOwner = {} /\ last'.newLinks = {}
               /\ ~run'.looped /\ ~run'.ret
               /\ clusters' = IF last'.op = "added"
                              THEN MapSet(clusters, cluster.Fsid, EmptyString)
                              ELSE clusters]_vars

\* an event on a node of which neither blob decodes, with a cluster tracked
\* and its ledger entry filled
Wit_C14 ==
    /\ Observed
    /\ BadCluster(last.summary) /\ BadOSD(last.osd)
    /\ last.tracked # "" /\ cluster.Fsid = last.tracked
    /\ MapGet(clusters, cluster.Fsid) # EmptyString
    /\ NothingAdded

\* ---------------------------------------------------------------- ceph.go
\* exec.Command(...).Output(): an error, or the bytes the command printed
CommandFailed == [err |-> TRUE, stdout |-> [json |-> FALSE, val |-> <<>>]]
NotJSON == [err |-> FALSE, stdout |-> [json |-> FALSE, val |-> <<>>]]
Output(v) == [err |-> FALSE, stdout |-> [json |-> TRUE, val |-> v]]

\* json.Unmarshal(stdout, &v)
JSONUnmarshal(stdout) ==
    IF stdout.json THEN [err |-> FALSE, val |-> stdout.val]
    ELSE [err |-> TRUE, val |-> <<>>]

\* the command of a kind failed, or printed what does not parse
CollectionError(out) == out.err \/ JSONUnmarshal(out.stdout).err

\* s.g.AddMetadata(s.hostNode, key, value), on the metadata n of the node
AddMetadata(n, key, value) == [n EXCEPT ![key] = Some(value)]

\* ReadCluster(s), the command returning out
ReadCluster(n, out) ==
    LET summary == JSONUnmarshal(out.stdout)
    IN  IF out.err THEN n
        ELSE IF summary.err THEN n
        ELSE AddMetadata(n, "CephCluster", EncodeCluster(summary.val))

\* ReadOSD(s), the command returning out
ReadOSD_WriteOnError(n, out) ==
    LET osds == JSONUnmarshal(out.stdout)
    IN  IF out.err THEN AddMetadata(n, "CephOSD", EncodeOSDs(<<>>))
        ELSE IF osds.err THEN AddMetadata(n, "CephOSD", EncodeOSDs(<<>>))
        ELSE AddMetadata(n, "CephOSD", EncodeOSDs(osds.val))

ReadOSD(n, out) ==
    LET osds == JSONUnmarshal(out.stdout)
    IN  IF out.err THEN n
        ELSE IF osds.err THEN n
        ELSE AddMetadata(n, "CephOSD", EncodeOSDs(osds.val))

\* ReadMons(s), the command returning out
ReadMons(n, out) ==
    LET monlist == JSONUnmarshal(out.stdout)
    IN  IF out.err THEN n
        ELSE IF monlist.err THEN n
        ELSE AddMetadata(n, "CephMON", EncodeMons(monlist.val))

\* mutant of GetCephMetadataTrace: ReadOSD is called before ReadCluster
GetCephMetadataTrace_OSDFirst(n, outs) ==
    LET n1 == ReadOSD(n, outs.osd)
        n2 == ReadCluster(n1, outs.cluster)
        n3 == ReadMons(n2, outs.mon)
    IN  <<[key |-> "CephOSD", out |-> outs.osd, node |-> n1],
          [key |-> "CephCluster", out |-> outs.cluster, node |-> n2],
          [key |-> "CephMON", out |-> outs.mon, node |-> n3]>>

\* GetCephMetadata(s), call by call: the attribute each call is for, what
\* its command returned, and the metadata of the host node when it returns
GetCephMetadataTrace(n, outs) ==
    LET n1 == ReadCluster(n, outs.cluster)
        n2 == ReadOSD(n1, outs.osd)
        n3 == ReadMons(n2, outs.mon)
    IN  <<[key |-> "CephCluster", out |-> outs.cluster, node |-> n1],
          [key |-> "CephOSD", out |-> outs.osd, node |-> n2],
          [key |-> "CephMON", out |-> outs.mon, node |-> n3]>>

\* GetCephMetadata(s), the three commands returning outs
GetCephMetadata(n, outs) == GetCephMetadataTrace(n, outs)[3].node

\* The node-updated events of a cycle reach the analyzer's probe in the
\* order of the AddMetadata calls, each with the metadata the node had when
\* the call returned; a call whose command failed makes no event.  The log
\* keeps, per event, the attribute written, the cluster summary on the
\* node, and the Fsid tracked and the result of graphOSDs in its handler.
\* the handler of one node-updated event, on the node as the call left it
Notify(st, hostNode, e) ==
    OnNodeUpdated([st EXCEPT !.nodes[hostNode] = e.node, !.run = NoRun], e.node)

\* what the log keeps of the event e, handled into s
Handled(e, s) ==
    [key |-> e.key, summary |-> e.node.CephCluster, osd |-> e.node.CephOSD,
     fsid |-> s.cluster.Fsid, ret |-> s.run.ret]

RECURSIVE Updates(_, _, _, _, _)
RECURSIVE Logged(_, _, _, _, _)
Logged(s, hostNode, trace, i, log) ==
    Updates(s, hostNode, trace, i + 1, Append(log, Handled(trace[i], s)))

Updates(st, hostNode, trace, i, log) ==
    IF i > Len(trace) THEN [st |-> st, log |-> log]
    ELSE IF CollectionError(trace[i].out)
         THEN Updates(st, hostNode, trace, i + 1, log)
    ELSE Logged(Notify(st, hostNode, trace[i]), hostNode, trace, i, log)

\* the events of one cycle on the host node, handled one after the other
Cycle(hostNode, outs) ==
    Updates(Current, hostNode, GetCephMetadataTrace(nodes[hostNode], outs), 1, <<>>)

\* what the three commands may return in a cycle
ClusterOutputs == {CommandFailed, NotJSON} \cup {Output(CLUSTER(f)) : f \in Fsids}
OSDOutputs == {CommandFailed, NotJSON, Output(Snap1), Output(Snap2)}
MonOutputs == {CommandFailed, NotJSON, Output(<<MON("a", "10.0.0.5:6789/0", "h1")>>)}
Outputs == [cluster : ClusterOutputs, osd : OSDOutputs, mon : MonOutputs]

MaxCycles == 3

\* the attributes of the host node that the collector writes
Attributes(n) == [cluster |-> n.CephCluster, osd |-> n.CephOSD, mon |-> n.CephMON]

\* one collection cycle on the host node of the probe: c is what the cycle
\* and the handlers of its events leave
Collect(hostNode, outs, c) ==
    /\ nodes' = [c.st.nodes EXCEPT ![hostNode] = GetCephMetadata(nodes[hostNode], outs)]
    /\ owner' = c.st.owner
    /\ links' = c.st.links
    /\ cluster' = c.st.cluster
    /\ clusters' = c.st.clusters
    /\ mons' = c.st.mons
    /\ pending' = c.st.pending
    /\ run' = c.st.run
    /\ UNCHANGED <<last, rendered, failed, fresh, events, pool, mpool, limit, threads,
                   hardware>>

\* (s *InfoProbe) Start(): a first cycle, then the ticking task is started
Start(hostNode, outs) ==
    /\ ~agent.started
    /\ hostNode \in DOMAIN nodes
    /\ agent.cycles < MaxCycles
    /\ \E c \in {Cycle(hostNode, outs)} :
          /\ Collect(hostNode, outs, c)
          /\ agent' = [agent EXCEPT !.hostNode = hostNode, !.started = TRUE,
                                    !.task = "select", !.cycles = @ + 1,
                                    !.by = "Start", !.log = c.log,
                                    !.outs = Some(outs),
                                    !.before = Some(Attributes(nodes[hostNode]))]

\* the ticking task: case <-ticker.C
Tick(outs) ==
    /\ agent.task = "select"
    /\ agent.cycles < MaxCycles
    /\ \E c \in {Cycle(agent.hostNode, outs)} :
          /\ Collect(agent.hostNode, outs, c)
          /\ agent' = [agent EXCEPT !.cycles = @ + 1,
                                    !.by = "ticker", !.log = c.log,
                                    !.outs = Some(outs),
                                    !.before = Some(Attributes(nodes[agent.hostNode])),
                                    !.late = @ \/ (/\ agent.stopped
                                                    /\ \/ ~CollectionError(outs.cluster)
                                                       \/ ~CollectionError(outs.osd)
                                                       \/ ~CollectionError(outs.mon))]

\* (s *InfoProbe) Stop()
Stop ==
    /\ agent.started
    /\ ~agent.stopped
    /\ agent' = [agent EXCEPT !.stopped = TRUE]
    /\ UNCHANGED <<nodes, owner, links, cluster, clusters, mons, pending, run, last,
                   rendered, failed, fresh, events, pool, mpool, limit, threads, hardware>>

\* SpecCollect: the agent of host h1 runs its collector probe
InitCollect ==
    /\ InitGraph({"h1"}, {}, Nil, Nil, Nil)
    /\ InitProbe
    /\ InitOff
    /\ pool = {}
    /\ mpool = {}
    /\ limit = 0

NextCollect ==
    \/ \E outs \in Outputs : Start(HostID("h1"), outs)
    \/ \E outs \in Outputs : Tick(outs)
    \/ Stop

SpecCollect == InitCollect /\ [][NextCollect]_vars

\* the attributes of the collector's host node
HostAttributes == Attributes(nodes[agent.hostNode])

\* C15: after a collection cycle, the attribute of every kind whose command
\* failed or printed what does not parse has the value it had before the
\* cycle, the attribute of every other kind is the blob of what its command
\* printed, whatever happened to the other kinds, and the ticking task is
\* still waiting for its next tick.
Thm_C15 ==
    agent.cycles > 0 =>
        LET outs == agent.outs[1]
            before == agent.before[1]
        IN /\ CollectionError(outs.cluster) => HostAttributes.cluster = before.cluster
           /\ CollectionError(outs.osd) => HostAttributes.osd = before.osd
           /\ CollectionError(outs.mon) => HostAttributes.mon = before.mon
           /\ ~CollectionError(outs.cluster) =>
                HostAttributes.cluster = Some(EncodeCluster(outs.cluster.stdout.val))
           /\ ~CollectionError(outs.osd) =>
                HostAttributes.osd = Some(EncodeOSDs(outs.osd.stdout.val))
           /\ ~CollectionError(outs.mon) =>
                HostAttributes.mon = Some(EncodeMons(outs.mon.stdout.val))
           /\ agent.task = "select"

\* a tick in which the OSD command failed and the two others printed
\* something new: the OSD attribute is the one of an earlier cycle
Wit_C15 ==
    /\ agent.cycles > 1
    /\ CollectionError(agent.outs[1].osd)
    /\ agent.before[1].osd # Nil /\ HostAttributes.osd = agent.before[1].osd
    /\ ~CollectionError(agent.outs[1].cluster)
    /\ HostAttributes.cluster # agent.before[1].cluster
    /\ ~CollectionError(agent.outs[1].mon)
    /\ HostAttributes.mon # agent.before[1].mon

\* C16 as stated: once Stop has returned, the ticking task attaches no
\* snapshot attribute to the host node.
Cex_C16 == ~agent.late

\* ------------------------------------------------ callbacks run concurrently
\* SpecRace: the graph delivers events from two threads.  Probe has no lock
\* (analyzer.go), so a callback is a sequence of steps, each reading or
\* writing p.cluster and p.clusters once, and the steps of two callbacks
\* interleave.
RaceEvents == 3

\* what remains of a callback from its position on
probeVars == <<mons, run, last, rendered, failed, fresh, pool, mpool, limit, agent,
               hardware>>

\* a thread enters OnNodeUpdated, or OnNodeAdded of a node the probe created
Deliver(t, id, op) ==
    /\ threads[t].pc = "idle"
    /\ events < limit
    /\ id \in DOMAIN nodes
    /\ op = "added" => id \in pending
    /\ threads' = [threads EXCEPT ![t] =
                     [NoCallback EXCEPT !.op = op, !.node = id,
                                        !.pc = IF op = "added" THEN "reset"
                                               ELSE "graphCluster"]]
    /\ pending' = IF op = "added" THEN pending \ {id} ELSE pending
    /\ events' = events + 1
    /\ UNCHANGED <<nodes, owner, links, cluster, clusters>>
    /\ UNCHANGED probeVars

\* OnNodeAdded: p.clusters[p.cluster.Fsid] = ""
StepReset(t) ==
    /\ threads[t].pc = "reset"
    /\ clusters' = MapSet(clusters, cluster.Fsid, EmptyString)
    /\ threads' = [threads EXCEPT ![t].pc = "graphCluster"]
    /\ UNCHANGED <<nodes, owner, links, cluster, pending, events>>
    /\ UNCHANGED probeVars

\* onNodeEvent: graphCluster(p, n)
StepCluster(t) ==
    /\ threads[t].pc = "graphCluster"
    /\ threads[t].node \in DOMAIN nodes
    /\ cluster' = graphCluster(Current, nodes[threads[t].node]).cluster
    /\ threads' = [threads EXCEPT ![t].pc = "graphOSDs"]
    /\ UNCHANGED <<nodes, owner, links, clusters, pending, events>>
    /\ UNCHANGED probeVars

\* onNodeEvent: the test of p.cluster.Fsid, and graphOSDs up to its loop
StepCheck(t) ==
    /\ threads[t].pc = "graphOSDs"
    /\ LET metadata == nodes[threads[t].node].CephOSD
           blob     == metadata[1]
           dec64    == Base64Decode(blob)
           dec      == GobDecode("osds", dec64.bytes)
           go       == /\ Len(cluster.Fsid) # 0
                       /\ metadata # Nil
                       /\ MapGet(clusters, cluster.Fsid) # blob
                       /\ ~dec64.err /\ ~dec.err
                       /\ Len(dec.val) > 0
       IN threads' = [threads EXCEPT ![t] =
                        IF go THEN [@ EXCEPT !.pc = "loop",
                                             !.key = Some(<<cluster.Fsid, blob>>)]
                        ELSE [@ EXCEPT !.pc = "idle"]]
    /\ UNCHANGED <<nodes, owner, links, cluster, clusters, pending, events>>
    /\ UNCHANGED probeVars

\* graphOSDs: the loop over the records
StepLoop(t) ==
    /\ threads[t].pc = "loop"
    /\ LET osds == DecodedOSDs(nodes[threads[t].node].CephOSD)
           loop == graphOSDsLoop(Current, osds, 1, TRUE)
       IN /\ nodes' = loop.st.nodes
          /\ owner' = loop.st.owner
          /\ links' = loop.st.links
          /\ pending' = loop.st.pending
          /\ threads' = [threads EXCEPT ![t] =
                           [@ EXCEPT !.everythingGraphed = loop.everythingGraphed,
                                     !.pc = IF loop.everythingGraphed THEN "ledger"
                                            ELSE "idle"]]
    /\ UNCHANGED <<cluster, clusters, events>>
    /\ UNCHANGED probeVars

\* graphOSDs: p.clusters[p.cluster.Fsid] = metadata.(string)
StepLedger(t) ==
    /\ threads[t].pc = "ledger"
    /\ LET blob == threads[t].key[1][2]
       IN /\ clusters' = MapSet(clusters, cluster.Fsid, blob)
          /\ threads' = [threads EXCEPT ![t] =
                           [@ EXCEPT !.pc = "idle",
                                     !.wrote = Some(<<cluster.Fsid, blob>>)]]
    /\ UNCHANGED <<nodes, owner, links, cluster, pending, events>>
    /\ UNCHANGED probeVars

\* the Go runtime finds two threads in the map p.clusters, one of them
\* writing, and ends the process ("concurrent map writes")
MapFault ==
    /\ \E t, u \in Threads :
          /\ t # u
          /\ threads[t].pc \in {"reset", "ledger"}
          /\ threads[u].pc \in {"reset", "graphOSDs", "ledger"}
    /\ threads' = [t \in Threads |-> [threads[t] EXCEPT !.pc = "fatal"]]
    /\ UNCHANGED <<nodes, owner, links, cluster, clusters, pending, events>>
    /\ UNCHANGED probeVars

\* two hosts of the graph carry a cluster summary and an OSD snapshot each
InitRace ==
    /\ \E is \in SUBSET IfaceSlots, f \in Fsids, o \in SpecPool :
         /\ nodes = [id \in {HostID("h1"), HostID("h2")}
                           \cup {IfaceID(s[1], s[2]) : s \in is} |->
                       IF id = HostID("h1")
                       THEN HostMetadata("h1", Some(EncodeCluster(CLUSTER("A"))),
                                         Some(EncodeOSDs(Snap1)), Nil)
                       ELSE IF id = HostID("h2")
                       THEN HostMetadata("h2", Some(EncodeCluster(CLUSTER(f))), Some(o), Nil)
                       ELSE LET s == CHOOSE s \in is : IfaceID(s[1], s[2]) = id
                            IN IfaceMetadata(s[2], IfaceIPV4(s[1], s[2]),
                                             IfaceEncap(s[1], s[2]))]
         /\ owner = {<<HostID(s[1]), IfaceID(s[1], s[2])>> : s \in is}
    /\ links = EmptyBag
    /\ InitProbe
    /\ InitOff
    /\ pool = SpecPool
    /\ mpool = {}
    /\ limit = RaceEvents

NextRace ==
    \/ \E t \in Threads, id \in DOMAIN nodes, op \in {"added", "updated"} : Deliver(t, id, op)
    \/ \E t \in Threads : StepReset(t)
    \/ \E t \in Threads : StepCluster(t)
    \/ \E t \in Threads : StepCheck(t)
    \/ \E t \in Threads : StepLoop(t)
    \/ \E t \in Threads : StepLedger(t)
    \/ MapFault

SpecRace == InitRace /\ [][NextRace]_vars

\* the thread has compared a blob with the ledger, found it not rendered,
\* and has not yet returned
InPass(t) == threads[t].pc \in {"loop", "ledger"}

\* C17 as stated: no two callbacks are past the "not yet rendered" test of
\* the same identity and blob at the same time, and a callback writes the
\* ledger entry of the identity it compared.
Cex_C17 ==
    /\ \A t, u \in Threads :
          (t # u /\ InPass(t) /\ InPass(u)) => threads[t].key # threads[u].key
    /\ \A t \in Threads :
          threads[t].wrote # Nil => threads[t].wrote[1][1] = threads[t].key[1][1]

\* ------------------------------------------------------------ agent/host.go
\* What json.Unmarshal builds in a map[string]interface{}: a map is a function
\* from field names to values, and a value carries its dynamic type, on which
\* the type switches and the type assertion of parseLshw depend.
\* The value is in s for a string or a number, in q for a list, in m for a map.
Str(s) == [t |-> "string", s |-> s, q |-> <<>>, m |-> <<>>]
Num(s) == [t |-> "float64", s |-> s, q |-> <<>>, m |-> <<>>]
Arr(q) == [t |-> "[]interface{}", s |-> "", q |-> q, m |-> <<>>]
Obj(m) == [t |-> "map[string]interface{}", s |-> "", q |-> <<>>, m |-> m]
\* what parseLshw builds: a []map[string]interface{}
Maps(q) == [t |-> "[]map[string]interface{}", s |-> "", q |-> q, m |-> <<>>]

\* extractClassAndID(children): the order in which the fields are met does
\* not matter, as both are returned once both have been met
extractClassAndID_ClassOnly(children) ==
    LET foundClass == IF "class" \in DOMAIN children /\ children["class"].t = "string"
                      THEN children["class"].s ELSE ""
        foundID    == IF "id" \in DOMAIN children /\ children["id"].t = "string"
                      THEN children["id"].s ELSE ""
    IN  IF Len(foundClass) > 0 THEN <<foundClass, foundID>> ELSE <<"", "">>

extractClassAndID(children) ==
    LET foundClass == IF "class" \in DOMAIN children /\ children["class"].t = "string"
                      THEN children["class"].s ELSE ""
        foundID    == IF "id" \in DOMAIN children /\ children["id"].t = "string"
                      THEN children["id"].s ELSE ""
    IN  IF Len(foundID) > 0 /\ Len(foundClass) > 0 THEN <<foundClass, foundID>>
        ELSE <<"", "">>

\* delete(items, objectName)
Delete(items, objectName) == [k \in DOMAIN items \ {objectName} |-> items[k]]

RECURSIVE parseLshw(_), parseChildren(_, _, _)

\* parseLshw, the loop over the children: items is the map as the earlier
\* children have left it.  The result is the map, and whether the type
\* assertion on items[class] panicked, and how many calls of parseLshw were
\* nested below this one (depth).  The entry {ID: child} holds the very
\* map that parseLshw(child) then rewrites.
parseChildren_NoRecursion(items, children, i) ==
    IF i > Len(children) THEN [items |-> items, panic |-> FALSE, depth |-> 0]
    ELSE IF children[i].t # "map[string]interface{}"
         THEN parseChildren(items, children, i + 1)
    ELSE LET child == children[i].m
             class == extractClassAndID(child)[1]
             ID    == extractClassAndID(child)[2]
             made  == IF class \notin DOMAIN items
                      THEN (class :> Maps(<<>>)) @@ items ELSE items
             added == [made EXCEPT ![class] = Maps(Append(@.q, (ID :> Obj(child))))]
         IN  IF Len(class) = 0 THEN parseChildren(items, children, i + 1)
             ELSE IF made[class].t # "[]map[string]interface{}"
                  THEN [items |-> items, panic |-> TRUE, depth |-> 0]
             ELSE parseChildren(Delete(added, "children"), children, i + 1)

parseChildren(items, children, i) ==
    IF i > Len(children) THEN [items |-> items, panic |-> FALSE, depth |-> 0]
    ELSE IF children[i].t # "map[string]interface{}"
         THEN parseChildren(items, children, i + 1)
    ELSE LET child == children[i].m
             class == extractClassAndID(child)[1]
             ID    == extractClassAndID(child)[2]
             made  == IF class \notin DOMAIN items
                      THEN (class :> Maps(<<>>)) @@ items ELSE items
             sub   == parseLshw(child)
             added == [made EXCEPT ![class] = Maps(Append(@.q, (ID :> Obj(sub.items))))]
             rest  == parseChildren(Delete(added, "children"), children, i + 1)
         IN  IF Len(class) = 0 THEN parseChildren(items, children, i + 1)
             ELSE IF made[class].t # "[]map[string]interface{}"
                  THEN [items |-> items, panic |-> TRUE, depth |-> 0]
             ELSE IF sub.panic
                  THEN [items |-> items, panic |-> TRUE, depth |-> sub.depth]
             ELSE [rest EXCEPT !.depth = IF sub.depth > @ THEN sub.depth ELSE @]

\* parseLshw, were a map without a list of children given an empty one
parseLshw_Mark(items) ==
    IF "children" \in DOMAIN items /\ items["children"].t = "[]interface{}"
    THEN [parseChildren(items, items["children"].q, 1) EXCEPT !.depth = @ + 1]
    ELSE [items |-> ("children" :> Arr(<<>>)) @@ items, panic |-> FALSE, depth |-> 1]

\* parseLshw(items): of the fields of items only a []interface{} named
\* children is looked into; the fields parseLshw adds while it ranges over
\* the map are no []interface{}
parseLshw(items) ==
    IF "children" \in DOMAIN items /\ items["children"].t = "[]interface{}"
    THEN [parseChildren(items, items["children"].q, 1) EXCEPT !.depth = @ + 1]
    ELSE [items |-> items, panic |-> FALSE, depth |-> 1]

\* The documents lshw may print.  Field names and class values are lshw's,
\* and no class value is the name of a field; a node may lack its class or
\* its id, or hold one that is no string or is empty.
Disk1 == ("class" :> Str("disk")) @@ ("id" :> Str("d1")) @@ ("foo" :> Num("1"))
Disk2 == ("class" :> Str("disk")) @@ ("id" :> Str("d2"))
Bus1 == ("class" :> Str("bus")) @@ ("id" :> Str("b1"))
Other == ("other" :> Num("2"))
NoID == ("class" :> Str("disk"))
EmptyClass == ("class" :> Str("")) @@ ("id" :> Str("e1"))
NumID == ("class" :> Str("disk")) @@ ("id" :> Num("7"))
WithChildren(m, q) == ("children" :> Arr(q)) @@ m

\* the children lists of the nodes below the root
Bus2 == WithChildren(("class" :> Str("bus")) @@ ("id" :> Str("b2")), <<Obj(Disk1)>>)
GrandChildren ==
    {<<Obj(Disk1)>>, <<Obj(Other)>>, <<Obj(Disk1), Obj(Other)>>,
     <<Obj(Bus1), Obj(Disk2), Obj(Disk1)>>, <<Obj(Bus2), Obj(NoID)>>}

\* the children of the root: nodes, and one element that is no map
RootChildren ==
    {Obj(m) : m \in {Disk1, Disk2, Bus1, Other, NoID, EmptyClass, NumID}}
    \cup {Obj(WithChildren(m, q)) : m \in {Disk1, Bus1, Other}, q \in GrandChildren}
    \cup {Str("x")}

MaxKids == 2

\* the root: without children, with children that are no list, or with a
\* list of at most MaxKids children; one root holds another list as well
Roots ==
    {("class" :> Str("system")) @@ ("id" :> Str("host")),
     ("class" :> Str("system")) @@ ("id" :> Str("host"))
        @@ ("capabilities" :> Arr(<<Obj(Disk1)>>))}
Documents ==
    Roots
    \cup {("children" :> Str("none")) @@ r : r \in Roots}
    \cup {WithChildren(r, q) : r \in Roots, q \in SeqsUpTo(RootChildren, MaxKids) \ {<<>>}}

\* createRootNode: lshw is run and its output parsed; with no lshw the CPU
\* information is read instead, and an output that is no JSON leaves the
\* node without hardware
createRootNode(out) ==
    /\ hardware.status = "start"
    /\ LET lshwMap == JSONUnmarshal(out.stdout)
           parsed  == parseLshw(lshwMap.val)
       IN hardware' =
            IF out.err THEN [hardware EXCEPT !.status = "cpu"]
            ELSE IF lshwMap.err THEN [hardware EXCEPT !.status = "bare"]
            ELSE IF parsed.panic
                 THEN [status |-> "panic", lshw |-> Some(lshwMap.val), Hardware |-> Nil,
                       depth |-> parsed.depth]
            ELSE [status |-> "done", lshw |-> Some(lshwMap.val),
                  Hardware |-> Some(parsed.items), depth |-> parsed.depth]
    /\ UNCHANGED <<nodes, owner, links, cluster, clusters, mons, pending, run, last,
                   rendered, failed, fresh, events, pool, mpool, limit, agent, threads>>

InitLshw ==
    /\ InitGraph({}, {}, Nil, Nil, Nil)
    /\ InitProbe
    /\ InitOff
    /\ pool = {}
    /\ mpool = {}
    /\ limit = 0

NextLshw ==
    \E out \in {CommandFailed, NotJSON} \cup {Output(d) : d \in Documents} :
        createRootNode(out)

SpecLshw == InitLshw /\ [][NextLshw]_vars

\* the children of a node: the elements of its list named children
Kids(m) ==
    IF "children" \in DOMAIN m /\ m["children"].t = "[]interface{}"
    THEN m["children"].q ELSE <<>>

\* the element is a mapping with a non-empty string class and a non-empty
\* string id
HasClassAndID(k) ==
    /\ k.t = "map[string]interface{}"
    /\ "class" \in DOMAIN k.m /\ k.m["class"].t = "string" /\ k.m["class"].s # ""
    /\ "id" \in DOMAIN k.m /\ k.m["id"].t = "string" /\ k.m["id"].s # ""

\* the children of m with class and id whose class is c, in their order
OfClass(m, c) ==
    SelectSeq(Kids(m), LAMBDA k : HasClassAndID(k) /\ k.m["class"].s = c)

\* entry is {id: child}, the child with the fields it had, its children
\* apart
Holds(entry, k) ==
    /\ DOMAIN entry = {k.m["id"].s}
    /\ entry[k.m["id"].s].t = "map[string]interface{}"
    /\ \A f \in DOMAIN k.m \ {"children"} :
          /\ f \in DOMAIN entry[k.m["id"].s].m
          /\ entry[k.m["id"].s].m[f] = k.m[f]

\* parseLshw has turned m into out as C18 says
Relocated(m, out) ==
    /\ \A i \in 1..Len(Kids(m)) :
          HasClassAndID(Kids(m)[i]) =>
              LET c == Kids(m)[i].m["class"].s
              IN /\ c \in DOMAIN out
                 /\ out[c].t = "[]map[string]interface{}"
                 /\ Len(out[c].q) = Len(OfClass(m, c))
                 /\ \A j \in 1..Len(out[c].q) : Holds(out[c].q[j], OfClass(m, c)[j])
    /\ \A i \in 1..Len(Kids(m)) :
          HasClassAndID(Kids(m)[i]) =>
              \A j \in 1..Len(Kids(out)) : Kids(out)[j] # Kids(m)[i]

Cex_C19 ==
    hardware.status = "done" =>
        \A i \in 1..Len(Kids(hardware.lshw[1])) :
            ~HasClassAndID(Kids(hardware.lshw[1])[i]) =>
                \E j \in 1..Len(Kids(hardware.Hardware[1])) :
                    Kids(hardware.Hardware[1])[j] = Kids(hardware.lshw[1])[i]

\* below m, parsed into out, every relocated child has been parsed as C18
\* says of a node, and so have the children relocated in it, at every depth
RECURSIVE Deep(_, _)
Deep(m, out) ==
    \A i \in 1..Len(Kids(m)) :
        HasClassAndID(Kids(m)[i]) =>
            LET k == Kids(m)[i]
                c == k.m["class"].s
                r == Cardinality({j \in 1..i : /\ HasClassAndID(Kids(m)[j])
                                               /\ Kids(m)[j].m["class"].s = c})
            IN /\ c \in DOMAIN out
               /\ r <= Len(out[c].q)
               /\ DOMAIN out[c].q[r] = {k.m["id"].s}
               /\ Relocated(k.m, out[c].q[r][k.m["id"].s].m)
               /\ Deep(k.m, out[c].q[r][k.m["id"].s].m)

Child(class, id) == ("class" :> Str(class)) @@ ("id" :> Str(id))
TreeClasses == {"disk", "children", "id", "class", "capabilities"}
TreeLeaves == {Obj(Child(c, "d1")) : c \in TreeClasses} \cup {Obj(Child("disk", "d2"))}
TreeChildren ==
    TreeLeaves
    \cup {Obj(WithChildren(Child("bus", "b1"), <<k>>)) : k \in TreeLeaves}
    \cup {Obj(WithChildren(Other, <<Obj(Bus2)>>)),
          Obj(WithChildren(Bus1, <<Obj(Bus2), Obj(NoID)>>))}
Trees ==
    Roots
    \cup {("children" :> Str("none")) @@ r : r \in Roots}
    \cup {WithChildren(r, q) : r \in Roots, q \in SeqsUpTo(TreeChildren, MaxKids) \ {<<>>}}

NextTrees ==
    \E out \in {CommandFailed, NotJSON} \cup {Output(d) : d \in Trees} :
        createRootNode(out)

SpecTrees == InitLshw /\ [][NextTrees]_vars

\* the depth of the tree below m: m, and the maps in its children lists
RECURSIVE Depth(_)
Depth(m) ==
    LET below == {Depth(Kids(m)[i].m) :
                    i \in {j \in 1..Len(Kids(m)) : Kids(m)[j].t = "map[string]interface{}"}}
    IN  1 + (IF below = {} THEN 0 ELSE CHOOSE d \in below : \A e \in below : e <= d)

\* the children of m with class and id that have no field children are, in
\* the list of out they were moved to, the maps they were
Unchanged(m, out) ==
    \A i \in 1..Len(Kids(m)) :
        (HasClassAndID(Kids(m)[i]) /\ "children" \notin DOMAIN Kids(m)[i].m) =>
            LET k == Kids(m)[i]
                c == k.m["class"].s
                r == Cardinality({j \in 1..i : /\ HasClassAndID(Kids(m)[j])
                                               /\ Kids(m)[j].m["class"].s = c})
            IN  (c \in DOMAIN out /\ out[c].t = "[]map[string]interface{}"
                   /\ r <= Len(out[c].q))
                => out[c].q[r] = (k.m["id"].s :> k)

\* C21: parseLshw returns or fails after finitely many calls on every
\* document: the calls it nests are at least one and at most the depth of
\* the tree; a root with no field children comes out as it went in, and so
\* does every child with no field children that was moved to a class list.
Thm_C21 ==
    /\ hardware.status \in {"done", "panic"} =>
          /\ hardware.depth >= 1
          /\ hardware.depth <= Depth(hardware.lshw[1])
    /\ hardware.status = "done" =>
          /\ "children" \notin DOMAIN hardware.lshw[1] =>
                hardware.Hardware[1] = hardware.lshw[1]
          /\ Unchanged(hardware.lshw[1], hardware.Hardware[1])

\* the root holds b1, which holds b2, which holds the disk d1: four nested
\* calls for a tree of depth four, and d1 is in the list disk of b2 as it was
Wit_C21 ==
    /\ hardware.status = "done"
    /\ Kids(hardware.lshw[1]) = <<Obj(WithChildren(Bus1, <<Obj(Bus2), Obj(NoID)>>))>>
    /\ hardware.depth = 4
    /\ Depth(hardware.lshw[1]) = 4
    /\ hardware.Hardware[1]["bus"].q[1]["b1"].m["bus"].q[1]["b2"].m["disk"].q[1]
          = ("d1" :> Obj(Disk1))

\* C30 as stated: createRootNode never fails at run time while it parses the
\* document.
Cex_C30 == hardware.status # "panic"

\* C22: a handler, whatever pass it runs, leaves every host node and every
\* interface node as it was: the nodes it changes were and are object
\* nodes, the nodes it creates are object nodes, the ownership edges it adds
\* go from a host node to an object node, the other edges it adds go from
\* an object node to an interface node, and it removes no node and no edge.
Thm_C22 ==
    last.op # "none" =>
        /\ \A c \in last.changed :
              /\ c.was \in {"OSD", "MON"}
              /\ c.id \in DOMAIN nodes /\ nodes[c.id].Type \in {"OSD", "MON"}
        /\ \A id \in last.newNodes : nodes[id].Type \in {"OSD", "MON"}
        /\ \A e \in last.newOwner :
              nodes[e[1]].Type = "host" /\ nodes[e[2]].Type \in {"OSD", "MON"}
        /\ \A e \in last.newLinks :
              nodes[e.src].Type \in {"OSD", "MON"} /\ nodes[e.dst].Type = "device"
        /\ last.lostOwner = {} /\ last.lostLinks = {}

\* a monitor pass has created an object node, its ownership edge and its
\* edge to an interface, in a graph that holds an OSD node as well
Wit_C22 ==
    /\ last.op = "mons"
    /\ \E id \in last.newNodes : nodes[id].Type = "MON"
    /\ last.newOwner # {}
    /\ last.newLinks # {}
    /\ \E id \in DOMAIN nodes : nodes[id].Type = "OSD"

\* the blob of the latest pass under identity I that returned true
LatestRendered(I) ==
    IF I \in DOMAIN last.latest THEN last.latest[I].blob ELSE EmptyString

\* no node-added or node-deleted event was delivered under tracked identity
\* I since that pass
NotReset(I) == I \in DOMAIN last.latest /\ ~last.latest[I].reset

\* host nodes carry equal OSD blobs exactly when the blobs decode to equal
\* snapshots
SameBlobSameContent ==
    \A x, y \in DOMAIN nodes :
        (Decodable(nodes[x].CephOSD) /\ Decodable(nodes[y].CephOSD)) =>
            ((nodes[x].CephOSD = nodes[y].CephOSD)
                <=> (DecodedOSDs(nodes[x].CephOSD) = DecodedOSDs(nodes[y].CephOSD)))

Thm_C24 ==
    \A i \in 1..Len(run.calls) :
        /\ ~run.calls[i].ok => ~run.calls[i].touched
        /\ run.calls[i].ok <=> Resolves(run.calls[i].osd)
        /\ run.calls[i].ok => OSDNodeOwned(run.calls[i].osd)
        /\ run.calls[i].touched => Resolves(run.calls[i].osd)

\* a record of h1 declares eth0 and eth1; eth0 is in the graph and eth1 is
\* not: graphOSD returned false, and there is no object node of the record
Wit_C24 ==
    /\ Len(run.calls) >= 1
    /\ ~run.calls[1].ok /\ ~run.calls[1].touched
    /\ run.calls[1].osd.Hostname = "h1"
    /\ run.calls[1].osd.FrontIface = "eth0" /\ run.calls[1].osd.BackIface = "eth1"
    /\ IfacePresent("h1", "eth0") /\ ~IfacePresent("h1", "eth1")
    /\ ~OSDNodeOwned(run.calls[1].osd)

\* C25 as stated: when the handler of an event has set a ledger entry to the
\* OSD blob of the event's node, the cluster summary of that node decodes
\* and reports the identity of that entry.
Cex_C25 ==
    (Observed /\ run.ret) =>
        /\ last.summary # Nil
        /\ LastSummaryFsid = run.fsid
        /\ MapGet(clusters, LastSummaryFsid) = last.osd[1]

\* ------------------------------------------ OSD and monitor passes, one graph
\* SpecKeys: hosts h1, a and a_b carry the OSD snapshot of OSD 0 on h1 and a
\* monitor snapshot: the monitor named 0 on h1, or the monitors c on a_b and
\* b_c on a.  Both passes run on every host node.
KeyEvents == 3
KeyHosts == {"h1", "a", "a_b"}
KeyOSDs == EncodeOSDs(<<OSD("h1", 0, "", "", "x")>>)
KeyMons ==
    {EncodeMons(<<MON("0", "", "h1")>>),
     EncodeMons(<<MON("c", "", "a_b"), MON("b_c", "", "a")>>)}

InitKeys ==
    /\ pool = {KeyOSDs}
    /\ \E m \in KeyMons :
         /\ mpool = {m}
         /\ \E hs \in SUBSET KeyHosts :
              InitGraph(hs, {}, Some(ClusterA), Some(KeyOSDs), Some(m))
    /\ InitProbe
    /\ InitOff
    /\ limit = KeyEvents

NextKeys ==
    \/ \E h \in KeyHosts, o \in pool, m \in mpool :
          HostAdded(h, Some(ClusterA), Some(o), Some(m))
    \/ \E h \in KeyHosts : NodeUpdated(HostID(h))
    \/ \E h \in KeyHosts : MonsGraphed(HostID(h))

SpecKeys == InitKeys /\ [][NextKeys]_vars

\* the components the snapshots of the graph's nodes describe, each with the
\* node identifier its pass derives
Components ==
    UNION {{[kind |-> "OSD", host |-> DecodedOSDs(nodes[x].CephOSD)[i].Hostname,
             ident |-> Itoa(DecodedOSDs(nodes[x].CephOSD)[i].ID),
             key |-> OSDNodeName(DecodedOSDs(nodes[x].CephOSD)[i])] :
               i \in 1..Len(DecodedOSDs(nodes[x].CephOSD))}
           \cup
           {[kind |-> "MON", host |-> DecodedMons(nodes[x].CephMON)[i].Hostname,
             ident |-> DecodedMons(nodes[x].CephMON)[i].Name,
             key |-> MONNodeName(DecodedMons(nodes[x].CephMON)[i])] :
               i \in 1..Len(DecodedMons(nodes[x].CephMON))} : x \in DOMAIN nodes}

\* the component an object node stands for
ComponentOf(type, rec) ==
    IF type = "OSD" THEN <<"OSD", rec[1].Hostname, Itoa(rec[1].ID)>>
    ELSE <<"MON", rec[1].Hostname, rec[1].Name>>

\* C26 as stated: the identifier of an object node in the graph is derived
\* from one component only (components that differ in kind, host or
\* component identity have different identifiers), and a handler that
\* changes an object node leaves it the node of the component it was.
Cex_C26 ==
    /\ \A c, d \in Components :
          (c.key = d.key /\ c.key \in DOMAIN nodes)
              => (c.kind = d.kind /\ c.host = d.host /\ c.ident = d.ident)
    /\ \A c \in last.changed :
          c.was \in {"OSD", "MON"} =>
              ComponentOf(c.was, c.rec) = ComponentOf(nodes[c.id].Type, nodes[c.id].Ceph)

\* the node of the last event carries no cluster summary, no OSD snapshot
\* and no monitor snapshot
NoSnapshot == last.summary = Nil /\ last.osd = Nil /\ last.mon = Nil

\* C27 as stated: the handler of a node-added or node-deleted event on a node
\* that carries no snapshot attribute leaves the ledger as it was (on such a
\* node no pass runs and the tracked identity stays, so only the entry of
\* the tracked identity is in question).
Cex_C27 ==
    (last.op \in {"added", "deleted"} /\ NoSnapshot) =>
        /\ last.fsid = last.tracked
        /\ MapGet(clusters, last.tracked) = last.before

\* C28: when the handler of a node event has found no Fsid tracked after
\* graphCluster, it has not called graphOSDs: no record was processed, no
\* node and no edge were added, and no ledger entry holds a blob; a pass has
\* run only in a handler that found an Fsid tracked.
Thm_C28 ==
    /\ (Observed /\ last.fsid = "") =>
          /\ ~run.looped /\ ~run.ret /\ run.calls = <<>> /\ run.blob = Nil
          /\ NothingAdded
          /\ \A I \in DOMAIN clusters : clusters[I] = EmptyString
    /\ (Observed /\ run.blob # Nil) => last.fsid # ""

\* a host was added carrying an OSD snapshot whose records all resolve, and
\* no cluster summary: nothing was rendered
Wit_C28 ==
    /\ last.op = "added" /\ last.fsid = ""
    /\ Decodable(last.osd)
    /\ Placed(LastOSDs) # {}
    /\ \A i \in Placed(LastOSDs) : Resolves(LastOSDs[i])
    /\ OSDNodes = {}
    /\ ~run.looped

\* C29: the handler of an add, update or delete event takes nothing out of
\* the graph: every node it found is still there, and so is every ownership
\* edge and every other edge; the nodes and edges of a component that a
\* later snapshot no longer lists are therefore left where they are.
Thm_C29 ==
    last.op # "none" =>
        /\ \A c \in last.changed : c.id \in DOMAIN nodes
        /\ last.lostOwner = {}
        /\ last.lostLinks = {}

\* Snap2 has just been fully rendered; it lists no OSD 1 on h2 and declares
\* no interface for OSD 0 on h1, yet the object node of OSD 1 on h2 and an
\* edge from the object node of OSD 0 to an interface, both made from
\* Snap1, are in the graph
Wit_C29 ==
    /\ Observed /\ run.ret
    /\ last.osd = Some(EncodeOSDs(Snap2))
    /\ OSDNodeOwned(Snap1[2])
    /\ \E e \in DOMAIN links :
          /\ nodes[e.src].Type = "OSD"
          /\ nodes[e.src].Ceph = Some(Snap2[1])
          /\ nodes[e.dst].Type = "device"

\* the place of an attribute in the order cluster summary, OSD, monitors
Rank(key) == CASE key = "CephCluster" -> 1 [] key = "CephOSD" -> 2 [] key = "CephMON" -> 3

\* the first cycle is run by Start itself and the later ones by the ticking
\* task, which Start starts after its cycle; the events of a cycle come in
\* the order cluster summary, OSD, monitors, one per command that succeeded
Ordered ==
    /\ agent.task = "select" => (agent.started /\ agent.cycles >= 1)
    /\ agent.cycles = 1 => agent.by = "Start"
    /\ agent.by = "ticker" => agent.cycles >= 2
    /\ \A i, j \in 1..Len(agent.log) :
          i < j => Rank(agent.log[i].key) < Rank(agent.log[j].key)
    /\ agent.cycles > 0 =>
          \A k \in {"cluster", "osd", "mon"} :
              ~CollectionError(agent.outs[1][k]) <=>
                  \E i \in 1..Len(agent.log) :
                      agent.log[i].key = (CASE k = "cluster" -> "CephCluster"
                                            [] k = "osd" -> "CephOSD"
                                            [] k = "mon" -> "CephMON")

\* the event of the OSD attribute was handled on a node carrying the cluster
\* summary this cycle read, and under its Fsid
SameCycle(e) ==
    /\ e.summary = Some(EncodeCluster(agent.outs[1].cluster.stdout.val))
    /\ e.osd = Some(EncodeOSDs(agent.outs[1].osd.stdout.val))
    /\ e.fsid = agent.outs[1].cluster.stdout.val.Fsid

\* C31 as stated: Start runs the first cycle, the events of a cycle come in
\* the order cluster summary, OSD, monitors, and the event of the OSD
\* attribute of a cycle is handled with the cluster summary of that cycle on
\* the node.
Cex_C31 ==
    /\ Ordered
    /\ \A i \in 1..Len(agent.log) :
          agent.log[i].key = "CephOSD" =>
              /\ ~CollectionError(agent.outs[1].cluster)
              /\ SameCycle(agent.log[i])

\* C31: Start runs the first cycle, the events of a cycle come in the order
\* cluster summary, OSD, monitors, and the event of the OSD attribute of a
\* cycle whose cluster command succeeded is handled with the cluster summary
\* of that cycle on the node and under its Fsid; when the cluster command of
\* the cycle failed, the event is handled with the summary the node had
\* before the cycle, or none.
Thm_C31 ==
    /\ Ordered
    /\ \A i \in 1..Len(agent.log) :
          agent.log[i].key = "CephOSD" =>
              IF ~CollectionError(agent.outs[1].cluster)
              THEN SameCycle(agent.log[i])
              ELSE agent.log[i].summary = agent.before[1].cluster

\* a tick read the summary of B and an OSD snapshot on a node that carried
\* the summary of A: three events, and the OSD event was handled under B
Wit_C31 ==
    /\ agent.by = "ticker"
    /\ agent.before[1].cluster = Some(EncodeCluster(CLUSTER("A")))
    /\ agent.outs[1].cluster = Output(CLUSTER("B"))
    /\ Len(agent.log) = 3
    /\ agent.log[2].key = "CephOSD"
    /\ agent.log[2].fsid = "B"
    /\ agent.log[2].summary = Some(EncodeCluster(CLUSTER("B")))

====
